---- MODULE Spec2Model ----
(***************************************************************************)
(* Model of the term_agent control loop (VaultAIAgentRunner.run) together  *)
(* with its collaborators: SecurityValidator, ContextManager and           *)
(* ActionPlanManager.                                                      *)
(*                                                                         *)
(* Strings that the code inspects character by character (shell commands)  *)
(* are sequences of one-character strings.  Message texts that the code    *)
(* only builds and stores are records naming the message and the values    *)
(* interpolated into it.                                                   *)
(***************************************************************************)
EXTENDS FiniteSets, Integers, Naturals, Sequences, TLC

(***************************************************************************)
(* Bounds of the model.                                                    *)
(***************************************************************************)
MaxSteps == 2        \* value given to max_steps (the program default is MAX_STEPS_DEFAULT)
MaxBatch == 2        \* longest action list in one model reply
MaxContext == 7      \* the user continues the thread only while the context has fewer turns
MaxPlanSteps == 2    \* longest plan returned by the planning request
MaxWindow == 1       \* largest window_size
MaxTurns == 5        \* longest context built on the context store alone
MaxSummary == 2      \* largest summary_char_limit; the summarizer's texts have up to MaxSummary + 1 characters
MaxUrls == 3         \* longest list of URLs in one batch
MaxConcurrent == 2   \* largest max_concurrent_fetches
MaxRecords == 1002   \* requests recorded in the request history
MaxText == 6         \* longest text handed to _extract_first_json_object

(***************************************************************************)
(* Program constants.                                                      *)
(***************************************************************************)
MAX_STEPS_DEFAULT == 100
max_correction_attempts == 3
max_attempts == 5            \* send_request
base_delay == 10             \* send_request, seconds
sample_length == 200         \* _format_error_details: length of the response sample
default_max_entries == 1000  \* cleanup_request_history

(***************************************************************************)
(* String helpers (Python str methods used by SecurityValidator).          *)
(***************************************************************************)
Whitespace == {" ", "\t", "\n"}

UpperCase == <<"A","B","C","D","E","F","G","H","I","J","K","L","M",
               "N","O","P","Q","R","S","T","U","V","W","X","Y","Z">>
LowerCase == <<"a","b","c","d","e","f","g","h","i","j","k","l","m",
               "n","o","p","q","r","s","t","u","v","w","x","y","z">>

\* str.lower() on one character
LowerChar(c) ==
  IF \E i \in 1..26 : UpperCase[i] = c
    THEN LowerCase[CHOOSE i \in 1..26 : UpperCase[i] = c]
    ELSE c

\* str.lower()
Lower(s) == [i \in 1..Len(s) |-> LowerChar(s[i])]

\* str.strip()
Strip(s) ==
  LET nonws == {i \in 1..Len(s) : s[i] \notin Whitespace}
  IN  IF nonws = {} THEN <<>>
      ELSE SubSeq(s, CHOOSE i \in nonws : \A j \in nonws : i <= j,
                     CHOOSE i \in nonws : \A j \in nonws : j <= i)

\* `sub in s`
Contains(s, sub) ==
  \E i \in 0..(Len(s) - Len(sub)) : SubSeq(s, i + 1, i + Len(sub)) = sub

\* s.endswith(suffix)
EndsWith(s, suffix) ==
  /\ Len(suffix) <= Len(s)
  /\ SubSeq(s, Len(s) - Len(suffix) + 1, Len(s)) = suffix

\* s.split(sep): the pieces between the non-overlapping occurrences of sep,
\* scanning from the left
RECURSIVE Split(_, _)
Split(s, sep) ==
  IF ~Contains(s, sep) THEN <<s>>
  ELSE LET i == CHOOSE k \in 0..(Len(s) - Len(sep)) :
                   /\ SubSeq(s, k + 1, k + Len(sep)) = sep
                   /\ \A j \in 0..(k - 1) : SubSeq(s, j + 1, j + Len(sep)) # sep
       IN  <<SubSeq(s, 1, i)>> \o Split(SubSeq(s, i + Len(sep) + 1, Len(s)), sep)

\* s.split()[0] when s.split() is not empty, else the empty string:
\* the first maximal run of non-whitespace characters
FirstToken(s) ==
  LET nonws == {i \in 1..Len(s) : s[i] \notin Whitespace}
  IN  IF nonws = {} THEN <<>>
      ELSE LET b == CHOOSE i \in nonws : \A j \in nonws : i <= j
               stops == {i \in b..Len(s) : s[i] \in Whitespace}
               e == IF stops = {} THEN Len(s)
                    ELSE (CHOOSE i \in stops : \A j \in stops : i <= j) - 1
           IN  SubSeq(s, b, e)

(***************************************************************************)
(* SecurityValidator                                                       *)
(***************************************************************************)
dangerous_commands ==
  { <<"r","m"," ","-","r","f"," ","/">>,
    <<"r","m"," ","-","r","f"," ","/","*">>,
    <<"r","m"," ","-","r","f"," ","/","h","o","m","e">>,
    <<"r","m"," ","-","r","f"," ","/","e","t","c">>,
    <<"r","m"," ","-","r","f"," ","/","v","a","r">>,
    <<"r","m"," ","-","r","f"," ","/","u","s","r">>,
    <<"r","m"," ","-","r","f"," ","/","b","o","o","t">>,
    <<"r","m"," ","-","r","f"," ","/","r","o","o","t">>,
    <<"d","d"," ","i","f","=","/","d","e","v","/">>,
    <<"m","k","f","s",".">>,
    <<"f","d","i","s","k"," ","/","d","e","v","/">>,
    <<"w","i","p","e","f","s">>,
    <<"s","h","r","e","d"," ","/","d","e","v","/">>,
    <<"p","a","s","s","w","d"," ","r","o","o","t">>,
    <<"u","s","e","r","m","o","d"," ","-","p"," ">>,
    <<"c","h","p","a","s","s","w","d">>,
    <<"s","u","d","o"," ","s","u">>,
    <<"s","u"," ","r","o","o","t">>,
    <<"s","u","d","o"," ","-","i">>,
    <<"s","u","d","o"," ","-","s">>,
    <<"c","r","o","n","t","a","b"," ","-","r">>,
    <<"h","i","s","t","o","r","y"," ","-","c">>,
    <<"u","n","s","e","t"," ","H","I","S","T","F","I","L","E">>,
    <<"c","h","m","o","d"," ","u","+","s">>,
    <<"c","h","m","o","d"," ","g","+","s">>,
    <<"c","h","m","o","d"," ","4">>,
    <<"c","h","m","o","d"," ","2">>,
    <<"i","p","t","a","b","l","e","s"," ","-","F">>,
    <<"i","p","t","a","b","l","e","s"," ","-","X">>,
    <<"u","f","w"," ","-","-","f","o","r","c","e"," ","d","i","s","a","b","l","e">>,
    <<"r","e","b","o","o","t">>,
    <<"s","h","u","t","d","o","w","n">>,
    <<"h","a","l","t">>,
    <<"p","o","w","e","r","o","f","f">>,
    <<"u","m","o","u","n","t"," ","/">>,
    <<"u","m","o","u","n","t"," ","-","a">>,
    <<"f","i","n","d"," ","/"," ","-","d","e","l","e","t","e">>,
    <<"f","i","n","d"," ","/"," ","-","e","x","e","c"," ","r","m">> }

\* the backquote character, written as a one-symbol atom
Backquote == "BACKQUOTE"

injection_patterns == << <<";">>, <<Backquote>>, <<"$","(">>, <<"$","{">> >>

interactive_cmds ==
  << <<"v","i">>,
     <<"v","i","m">>,
     <<"n","a","n","o">>,
     <<"e","m","a","c","s">>,
     <<"l","e","s","s">>,
     <<"m","o","r","e">>,
     <<"t","o","p">>,
     <<"h","t","o","p">>,
     <<"m","c">>,
     <<"p","a","s","s","w","d">>,
     <<"s","u">>,
     <<"s","u","d","o"," ","-","i">>,
     <<"s","u","d","o"," ","-","s">> >>

\* mutant of MalformedPart: the segment is not stripped
MalformedPartUnstripped(part) == part = <<>>

\* the per-segment re-check of a chain: an empty segment, or a segment that
\* holds an injection pattern
MalformedPart(part) == Strip(part) = <<>>
SuspiciousPart(part) ==
  \E k \in 1..Len(injection_patterns) : Contains(Strip(part), injection_patterns[k])

\* validate_command(command) -> (is_valid, reason)
validate_command(command) ==
  LET cmd_lower == Strip(Lower(command))
      and_parts == Split(command, <<"&","&">>)
      or_parts  == Split(command, <<"|","|">>)
      first     == FirstToken(command)
  IN  IF command = <<>>
        THEN [ok |-> FALSE, reason |-> "empty"]
      ELSE IF \E dangerous \in dangerous_commands : Contains(cmd_lower, dangerous)
        THEN [ok |-> FALSE, reason |-> "dangerous_pattern"]
      ELSE IF \E k \in 1..Len(injection_patterns) : Contains(command, injection_patterns[k])
        THEN [ok |-> FALSE, reason |-> "shell_injection"]
      ELSE IF /\ Contains(command, <<"&","&">>)
              /\ \E k \in 1..Len(and_parts) :
                    MalformedPart(and_parts[k]) \/ SuspiciousPart(and_parts[k])
        THEN [ok |-> FALSE, reason |-> "bad_and_chain"]
      ELSE IF /\ Contains(command, <<"|","|">>)
              /\ \E k \in 1..Len(or_parts) :
                    MalformedPart(or_parts[k]) \/ SuspiciousPart(or_parts[k])
        THEN [ok |-> FALSE, reason |-> "bad_or_chain"]
      ELSE IF /\ first # <<>>
              /\ \E k \in 1..Len(interactive_cmds) : EndsWith(first, interactive_cmds[k])
        THEN [ok |-> FALSE, reason |-> "interactive"]
      ELSE [ok |-> TRUE, reason |-> ""]

\* a command "contains a denylisted substring": some entry of the denylist
\* occurs in it as written
ContainsDenylisted(command) ==
  \E dangerous \in dangerous_commands : Contains(command, dangerous)

(***************************************************************************)
(* Commands the model may put into a bash action.                          *)
(***************************************************************************)
CmdLs == <<"l","s"," ","-","l","a"," ","/","t","m","p">>
CmdRmRoot == <<"r","m"," ","-","r","f"," ","/">>
CmdIptables == <<"i","p","t","a","b","l","e","s"," ","-","F">>
CmdInject == <<"l","s",";","i","d">>
CmdEmpty == <<>>

Commands == {CmdLs, CmdRmRoot, CmdIptables, CmdInject, CmdEmpty}


(***************************************************************************)
(* State                                                                   *)
(***************************************************************************)
VARIABLES
  auto_accept,                 \* terminal.auto_accept
  block_dangerous_commands,    \* terminal.block_dangerous_commands
  ssh_connection,              \* terminal.ssh_connection
  window_size,                 \* ContextManager._window_size
  context,                     \* ContextManager.context: the stored turns
  summary_upto_index,          \* ContextManager._summary_upto_index
  rolling_summary,             \* ContextManager._rolling_summary
  plan,                        \* ActionPlanManager.steps
  summary,                     \* VaultAIAgentRunner.summary
  command,                     \* run(): command handed to the executor by the latest operation, empty if none
  pc,                          \* position of run()
  keep_running,                \* run(): keep_running
  task_finished_successfully,  \* run(): task_finished_successfully
  agent_should_stop_this_turn, \* run(): agent_should_stop_this_turn
  step_count,                  \* run(): step_count of the for loop
  correction_attempt,          \* _parse_ai_response_original: correction_attempt
  actions_len,                 \* run(): len(actions_to_process)
  action_item_idx,             \* run(): action_item_idx
  window_context,              \* result of the latest _sliding_window_context()
  requests,                    \* main model requests issued by the step loop of this goal
  turn_start,                  \* len(context) when the latest main model request was issued
  feedback,                    \* texts passed to add_*_message by the latest operation
  effects,                     \* collaborators called by the latest operation
  summary_char_limit,          \* ContextManager._summary_char_limit
  truncation_count,            \* ContextManager._summary_metrics["truncation_count"]
  summarizer,                  \* what the summarizer model answers to the latest window request
  call,                        \* the operation a caller applied last, with its arguments
  returned,                    \* what that operation returned
  attempt,                     \* send_request: attempt of the for loop, 0 before the call
  slept,                       \* send_request: the arguments of time.sleep so far
  max_concurrent_fetches,      \* WebSearchAgent.config['max_concurrent_fetches']
  tasks,                       \* _extract_content_batch_async: the state of each fetch task
  request_history              \* ContextManager.request_history: the request ids recorded

vars == <<auto_accept, block_dangerous_commands, ssh_connection, window_size,
          context, summary_upto_index, rolling_summary, plan, summary,
          command, pc, keep_running, task_finished_successfully,
          agent_should_stop_this_turn, step_count, correction_attempt,
          actions_len, action_item_idx, window_context, requests, turn_start,
          feedback, effects, summary_char_limit, truncation_count, summarizer,
          call, returned, attempt, slept, max_concurrent_fetches, tasks,
          request_history>>

\* the summary cap and its counter, which only a summary update touches
summary_metrics == <<summary_char_limit, truncation_count, summarizer>>

\* the state of the collaborators the step loop of run() does not enter
units == <<call, returned, attempt, slept, max_concurrent_fetches, tasks,
           request_history>>

config == <<auto_accept, block_dangerous_commands, ssh_connection, window_size>>

\* the state of run() and of its context store, the plan aside
runner == <<config, summary_metrics, context, summary_upto_index, rolling_summary,
            summary, command, pc, keep_running, task_finished_successfully,
            agent_should_stop_this_turn, step_count, correction_attempt,
            actions_len, action_item_idx, window_context, requests, turn_start,
            feedback, effects>>

\* max_steps of the runner
max_steps == MaxSteps

(***************************************************************************)
(* ContextManager                                                          *)
(***************************************************************************)
\* one stored turn; content names the class of text the turn holds
Turn(role, content) == [role |-> role, content |-> content]

SystemPromptTurn == Turn("system", "system_prompt")
GoalTurn == Turn("user", "goal")

\* the text of one message: which message it is and the number it names
Msg(kind, n) == [msg |-> kind, n |-> n]

\* _summarize_initial / _summarize_update pass a `prompt` keyword that
\* _summarize does not accept: the call raises TypeError, which
\* _update_rolling_summary catches, so the stored summary stays as it was
update_rolling_summary(old_summary, new_messages) == old_summary

\* Python slice seq[-n:] : the last n elements, and the whole list when n = 0
LastSlice(seq, n) ==
  IF n = 0 \/ n >= Len(seq) THEN seq
  ELSE SubSeq(seq, Len(seq) - n + 1, Len(seq))

\* def _summarize(self, messages): the keyword parameters it accepts
summarize_keywords == {}

\* the text of the heuristic fallback of _summarize when no message holds a
\* keyword: its three headers, one character each here
heuristic_summary == <<"C", "D", "P">>

\* _summarize(messages): the stripped reply of the summarizer model when it
\* gives a non-empty one, else (no reply, or the call raises) the heuristic text
summarize(reply) ==
  IF reply.kind = "text" /\ reply.text # <<>> THEN Strip(reply.text)
  ELSE heuristic_summary

\* the hard cap of _update_rolling_summary: summary[-limit:] when
\* len(summary) > limit, which is the whole text when limit = 0
hard_cap(text, limit) ==
  IF Len(text) > limit THEN LastSlice(text, limit) ELSE text

\* _update_rolling_summary(new_messages) with the summarizer's reply: the
\* stored summary afterwards and the truncations counted.  The call
\* self._summarize(messages, prompt=...) raises TypeError unless _summarize
\* accepts `prompt`; the except clause then keeps the old summary.
rolling_summary_update(old_summary, reply, limit) ==
  IF "prompt" \notin summarize_keywords
    THEN [summary |-> old_summary, truncations |-> 0]
    ELSE [summary     |-> hard_cap(summarize(reply), limit),
          truncations |-> IF Len(summarize(reply)) > limit THEN 1 ELSE 0]

\* mutant of FirstTwo: the slice seq[1:3]
FirstTwoShifted(seq) == SubSeq(seq, 2, IF Len(seq) < 3 THEN Len(seq) ELSE 3)

\* Python slice seq[:2]
FirstTwo(seq) == SubSeq(seq, 1, IF Len(seq) < 2 THEN Len(seq) ELSE 2)

\* _inject_state(working, state): state is "none", "empty" or "set"
inject_state(working, state) ==
  IF state = "set" THEN Append(working, Turn("system", "persistent_state"))
  ELSE working

\* summary_end_index of get_sliding_window_context
summary_end_index(ctx, ws) == Len(ctx) - ws

\* the new_messages slice context[_summary_upto_index:summary_end_index]
new_messages(ctx, upto, ws) ==
  IF upto + 1 <= summary_end_index(ctx, ws)
    THEN SubSeq(ctx, upto + 1, summary_end_index(ctx, ws))
    ELSE <<>>

\* _rolling_summary after get_sliding_window_context
summary_after_window(ctx, upto, rs, ws) ==
  IF Len(ctx) <= 2 + ws \/ new_messages(ctx, upto, ws) = <<>> THEN rs
  ELSE update_rolling_summary(rs, new_messages(ctx, upto, ws))

\* _summary_upto_index after get_sliding_window_context
upto_after_window(ctx, upto, ws) ==
  IF Len(ctx) <= 2 + ws \/ new_messages(ctx, upto, ws) = <<>> THEN upto
  ELSE summary_end_index(ctx, ws)

\* get_sliding_window_context(state): the list handed to the model
get_sliding_window_context(ctx, upto, rs, ws, state) ==
  IF Len(ctx) <= 2 + ws
    THEN inject_state(ctx, state)
    ELSE LET initial == FirstTwo(ctx)
             recent  == LastSlice(ctx, ws)
             rs2     == summary_after_window(ctx, upto, rs, ws)
             memory  == IF rs2 # "None"
                          THEN <<Turn("assistant", "conversation_memory")>>
                          ELSE <<>>
         IN  inject_state(initial \o memory \o recent, state)

\* remove_last_n_messages(n): drops the last n stored turns
remove_last_n_messages(ctx, n) ==
  SubSeq(ctx, 1, IF Len(ctx) >= n THEN Len(ctx) - n ELSE 0)

(***************************************************************************)
(* ActionPlanManager                                                       *)
(***************************************************************************)
StepStatus == {"pending", "in_progress", "completed", "failed", "skipped"}

\* whether create_plan(goal, steps_data) raises: step_data.get fails on the
\* first entry that is not a dictionary
create_plan_raises(steps_data) ==
  \E i \in 1..Len(steps_data) : steps_data[i].type # "dict"

\* mutant of create_plan: the steps are numbered from 0
create_plan_from_zero(steps_data) ==
  [i \in 1..Len(steps_data) |->
     [number |-> i - 1, description |-> steps_data[i].description, status |-> "pending"]]

\* the steps after create_plan(goal, steps_data): the old steps are dropped,
\* then one pending step per entry is appended, numbered from 1, up to the
\* first entry that is not a dictionary; an entry without 'description'
\* gives the empty description
create_plan(steps_data) ==
  LET bad == {i \in 1..Len(steps_data) : steps_data[i].type # "dict"}
      n   == IF bad = {} THEN Len(steps_data)
             ELSE (CHOOSE i \in bad : \A j \in bad : i <= j) - 1
  IN  [i \in 1..n |->
         [number      |-> i,
          description |-> IF steps_data[i].description = "absent" THEN ""
                          ELSE steps_data[i].description,
          status      |-> "pending"]]

\* the four entries of default_steps in _create_default_plan
default_steps == <<"analyze", "execute", "verify", "summarize">>

\* mutant of mark_step_status: every step from that number on gets the status
mark_step_status_onwards(p, step_number, status) ==
  [i \in 1..Len(p) |->
     IF p[i].number >= step_number THEN [p[i] EXCEPT !.status = status] ELSE p[i]]

\* mark_step_status(step_number, status): the first step with that number
mark_step_status(p, step_number, status) ==
  IF \E i \in 1..Len(p) : p[i].number = step_number
    THEN LET i == CHOOSE k \in 1..Len(p) :
                    /\ p[k].number = step_number
                    /\ \A j \in 1..(k - 1) : p[j].number # step_number
         IN  [p EXCEPT ![i].status = status]
    ELSE p

\* the return value of mark_step_status
mark_step_status_ok(p, step_number) ==
  \E i \in 1..Len(p) : p[i].number = step_number

\* first step with the given status, 0 when there is none
FirstWithStatus(p, status) ==
  IF \E i \in 1..Len(p) : p[i].status = status
    THEN CHOOSE i \in 1..Len(p) :
           /\ p[i].status = status
           /\ \A j \in 1..(i - 1) : p[j].status # status
    ELSE 0

get_current_step(p) == FirstWithStatus(p, "in_progress")
get_next_pending_step(p) == FirstWithStatus(p, "pending")

CountStatus(p, status) == Cardinality({i \in 1..Len(p) : p[i].status = status})

\* mutant of get_progress: a step in progress is not counted
get_progress_without_in_progress(p) ==
  [total       |-> Len(p),
   completed   |-> CountStatus(p, "completed"),
   failed      |-> CountStatus(p, "failed"),
   pending     |-> CountStatus(p, "pending"),
   in_progress |-> 0]

\* get_progress(): the counts the finish branch reads
get_progress(p) ==
  [total       |-> Len(p),
   completed   |-> CountStatus(p, "completed"),
   failed      |-> CountStatus(p, "failed"),
   pending     |-> CountStatus(p, "pending"),
   in_progress |-> CountStatus(p, "in_progress")]

\* mutant of update_plan_progress: the first pending step is preferred to
\* the step in progress
update_plan_progress_pending_first(p, success) ==
  LET status == IF success THEN "completed" ELSE "failed"
  IN  IF Len(p) = 0 THEN p
      ELSE IF get_next_pending_step(p) # 0
        THEN mark_step_status(p, p[get_next_pending_step(p)].number, status)
      ELSE IF get_current_step(p) # 0
        THEN mark_step_status(p, p[get_current_step(p)].number, status)
      ELSE p

\* mutant of update_plan_progress: every open step is marked
update_plan_progress_every_open_step(p, success) ==
  LET status == IF success THEN "completed" ELSE "failed"
  IN  [i \in 1..Len(p) |->
         IF p[i].status \in {"in_progress", "pending"}
           THEN [p[i] EXCEPT !.status = status] ELSE p[i]]

\* _update_plan_progress(action_description, success)
update_plan_progress(p, success) ==
  LET status == IF success THEN "completed" ELSE "failed"
  IN  IF Len(p) = 0 THEN p
      ELSE IF get_current_step(p) # 0
        THEN mark_step_status(p, p[get_current_step(p)].number, status)
      ELSE IF get_next_pending_step(p) # 0
        THEN mark_step_status(p, p[get_next_pending_step(p)].number, status)
      ELSE p

(***************************************************************************)
(* VaultAIAgentRunner.run: shared fragments                                *)
(***************************************************************************)
\* add_message for every turn of `turns` (each call clears the rolling
\* summary cache); upto/rs are the cache values left by a window request
\* made before the turns were added
Store(newctx, turns, msgs, upto, rs) ==
  /\ context' = newctx \o turns
  /\ feedback' = msgs
  /\ summary_upto_index' = IF turns = <<>> THEN upto ELSE 2
  /\ rolling_summary' = IF turns = <<>> THEN rs ELSE "None"

\* add_user_message(text) alone
Feedback(msg) ==
  Store(context, <<Turn("user", "feedback")>>, <<msg>>, summary_upto_index, rolling_summary)

\* mutant of NextIteration: the loop bound is off by one
NextIterationOneMore(sum) ==
  /\ action_item_idx' = 0
  /\ actions_len' = 0
  /\ correction_attempt' = 0
  /\ UNCHANGED <<task_finished_successfully, agent_should_stop_this_turn>>
  /\ IF step_count < max_steps
       THEN /\ pc' = "request"
            /\ step_count' = step_count + 1
            /\ summary' = sum
            /\ UNCHANGED keep_running
       ELSE /\ pc' = "done"
            /\ step_count' = step_count
            /\ summary' = "max_step_limit"
            /\ keep_running' = FALSE

\* the for loop takes its next step_count, or is exhausted: then run()
\* sets the step-limit summary and, the task not being finished, stops
NextIteration(sum) ==
  /\ action_item_idx' = 0
  /\ actions_len' = 0
  /\ correction_attempt' = 0
  /\ UNCHANGED <<task_finished_successfully, agent_should_stop_this_turn>>
  /\ IF step_count + 1 < max_steps
       THEN /\ pc' = "request"
            /\ step_count' = step_count + 1
            /\ summary' = sum
            /\ UNCHANGED keep_running
       ELSE /\ pc' = "done"
            /\ step_count' = step_count
            /\ summary' = "max_step_limit"
            /\ keep_running' = FALSE

\* `continue` in the batch loop: the next action item, or the next step
GoOn(sum) ==
  IF action_item_idx + 1 < actions_len
    THEN /\ pc' = "dispatch"
         /\ action_item_idx' = action_item_idx + 1
         /\ summary' = sum
         /\ UNCHANGED <<actions_len, step_count, keep_running, correction_attempt,
                        task_finished_successfully, agent_should_stop_this_turn>>
    ELSE NextIteration(sum)

\* agent_should_stop_this_turn = True; break: both loops are left and,
\* the task not being finished, keep_running becomes False
StopRun(sum) ==
  /\ pc' = "done"
  /\ summary' = sum
  /\ agent_should_stop_this_turn' = TRUE
  /\ keep_running' = FALSE
  /\ correction_attempt' = 0
  /\ UNCHANGED <<task_finished_successfully, step_count, actions_len, action_item_idx>>

\* whether more action items follow the current one
MoreActions == actions_len > 1 /\ action_item_idx < actions_len - 1

(***************************************************************************)
(* Initial state: after VaultAIAgentRunner.__init__                        *)
(***************************************************************************)
\* everything but the configuration
Constructed ==
  /\ context = <<SystemPromptTurn, GoalTurn>>
  /\ summary_upto_index = 2
  /\ rolling_summary = "None"
  /\ plan = <<>>
  /\ summary = ""
  /\ command = <<>>
  /\ pc = "initialize_plan"
  /\ keep_running = TRUE
  /\ task_finished_successfully = FALSE
  /\ agent_should_stop_this_turn = FALSE
  /\ step_count = 0
  /\ correction_attempt = 0
  /\ actions_len = 0
  /\ action_item_idx = 0
  /\ window_context = <<>>
  /\ requests = 0
  /\ turn_start = 2
  /\ feedback = <<>>
  /\ effects = {}
  /\ truncation_count = 0
  /\ summarizer = [kind |-> "not_called", text |-> <<>>]

\* no collaborator has been called yet
Idle ==
  /\ call = <<>>
  /\ returned = <<>>
  /\ attempt = 0
  /\ slept = <<>>
  /\ tasks = <<>>
  /\ request_history = <<>>

\* every terminal configuration, with the largest window
Init ==
  /\ auto_accept \in BOOLEAN
  /\ block_dangerous_commands \in BOOLEAN
  /\ ssh_connection \in BOOLEAN
  /\ window_size = MaxWindow
  /\ summary_char_limit = 5000
  /\ max_concurrent_fetches = 5
  /\ Constructed
  /\ Idle

\* every window size, for a local terminal that validates commands
InitReplies ==
  /\ auto_accept \in BOOLEAN
  /\ block_dangerous_commands = TRUE
  /\ ssh_connection = FALSE
  /\ window_size \in 0..MaxWindow
  /\ summary_char_limit = 5000
  /\ max_concurrent_fetches = 5
  /\ Constructed
  /\ Idle

(***************************************************************************)
(* _initialize_plan, then the top of `while keep_running`                  *)
(***************************************************************************)
\* what _initialize_plan and the top of the while loop leave alone
PlanFrame ==
  /\ command' = <<>>
  /\ pc' = "request"
  /\ step_count' = 0
  /\ task_finished_successfully' = FALSE
  /\ agent_should_stop_this_turn' = FALSE
  /\ UNCHANGED <<config, summary_metrics, units, summary, keep_running, correction_attempt, actions_len,
                 action_item_idx, window_context, requests, turn_start>>

\* create_plan_with_ai returned n >= 1 steps; in interactive mode
\* _interactive_plan_acceptance may have replaced them by a revised plan
\* (create_plan after clear(): k steps, fewer when create_plan raised on a
\* malformed entry); the plan is then added to the context
InitializePlanWithAI ==
  /\ pc = "initialize_plan"
  /\ \E n \in 1..MaxPlanSteps :
       \E k \in (IF auto_accept THEN {n} ELSE 0..MaxPlanSteps) :
         plan' = create_plan([i \in 1..k |-> [type |-> "dict", description |-> "step"]])
  /\ Store(context, <<Turn("system", "plan")>>, <<Msg("action_plan", 0)>>,
           summary_upto_index, rolling_summary)
  /\ effects' = {"planning_request"} \cup (IF auto_accept THEN {} ELSE {"plan_prompt"})
  /\ PlanFrame

\* create_plan_with_ai returned no steps (no response, invalid JSON, empty
\* list, exception): _create_default_plan; nothing is added to the context
InitializePlanDefault ==
  /\ pc = "initialize_plan"
  /\ plan' = create_plan([i \in 1..Len(default_steps) |->
                            [type |-> "dict", description |-> default_steps[i]]])
  /\ effects' = {"planning_request"}
  /\ feedback' = <<>>
  /\ UNCHANGED <<context, summary_upto_index, rolling_summary>>
  /\ PlanFrame

(***************************************************************************)
(* One main model request and the handling of its reply                    *)
(***************************************************************************)
\* classes of a reply text, by what the parsers make of it:
\*   "actions"  parses to a list or a dictionary
\*   "scalar"   parses to a JSON value that is neither (a number, a string)
\*   "null"     parses to null: data is None although json.loads succeeded
\*   "invalid"  json.loads raises JSONDecodeError
ParsedClasses == {"actions", "scalar", "null"}

\* run() after a reply (original or corrected) has been parsed to class cls;
\* ctx is the context at that moment, n the length of the action list
HandleParsed(ctx, pre, cls, n, upto, rs) ==
  CASE cls = "actions" ->
         /\ Store(ctx, <<Turn("assistant", "reply_json")>>,
                  pre \o <<Msg("reply_json", n)>>, upto, rs)
         /\ IF n = 0
              THEN NextIteration(summary)
              ELSE /\ pc' = "dispatch"
                   /\ actions_len' = n
                   /\ action_item_idx' = 0
                   /\ correction_attempt' = 0
                   /\ UNCHANGED <<summary, step_count, keep_running,
                                  task_finished_successfully,
                                  agent_should_stop_this_turn>>
    [] cls = "scalar" ->
         /\ Store(ctx, <<Turn("assistant", "reply_json"), Turn("user", "feedback")>>,
                  pre \o <<Msg("reply_json", 0), Msg("not_list_or_dict", 0)>>, upto, rs)
         /\ StopRun("response_type")
    [] cls = "null" ->
         /\ Store(ctx, <<Turn("assistant", "reply_raw"), Turn("user", "feedback")>>,
                  pre \o <<Msg("reply_raw", 0), Msg("could_not_parse", 0)>>, upto, rs)
         /\ NextIteration("parse_failed_continue")

\* _sliding_window_context(): self.state is never set, so no state is injected
WindowOf(ctx, upto, rs) ==
  get_sliding_window_context(ctx, upto, rs, window_size, "none")

\* the top of one step: the window is built and send_request is called
RequestFrame ==
  /\ pc = "request"
  /\ command' = <<>>
  /\ window_context' = WindowOf(context, summary_upto_index, rolling_summary)
  /\ requests' = requests + 1
  /\ turn_start' = Len(context)
  /\ effects' = {"model_request"}
  /\ UNCHANGED <<config, summary_metrics, units, plan>>

\* mutant of ModelRequestNoReply: a missing reply is skipped like an empty one
ModelRequestNoReplyContinues ==
  /\ RequestFrame
  /\ Store(context, <<>>, <<>>,
           upto_after_window(context, summary_upto_index, window_size),
           summary_after_window(context, summary_upto_index, rolling_summary, window_size))
  /\ NextIteration("ai_no_response")

\* send_request returned None: transport retries exhausted
ModelRequestNoReply ==
  /\ RequestFrame
  /\ Store(context, <<>>, <<>>,
           upto_after_window(context, summary_upto_index, window_size),
           summary_after_window(context, summary_upto_index, rolling_summary, window_size))
  /\ StopRun("ai_no_response")

\* send_request returned the empty string: nothing is parsed or stored
ModelRequestEmptyReply ==
  /\ RequestFrame
  /\ Store(context, <<>>, <<>>,
           upto_after_window(context, summary_upto_index, window_size),
           summary_after_window(context, summary_upto_index, rolling_summary, window_size))
  /\ NextIteration("parse_failed_continue")

\* the reply parses at once
ModelRequestParsed ==
  /\ RequestFrame
  /\ \E cls \in ParsedClasses :
       \E n \in (IF cls = "actions" THEN 0..MaxBatch ELSE {0}) :
         HandleParsed(context, <<>>, cls, n,
           upto_after_window(context, summary_upto_index, window_size),
           summary_after_window(context, summary_upto_index, rolling_summary, window_size))

\* the reply raises JSONDecodeError: _parse_ai_response_original stores it
\* and enters its correction loop
ModelRequestInvalid ==
  /\ RequestFrame
  /\ Store(context, <<Turn("assistant", "reply_raw")>>, <<Msg("reply_raw", 0)>>,
           summary_upto_index, rolling_summary)
  /\ pc' = "correcting"
  /\ correction_attempt' = 0
  /\ UNCHANGED <<summary, step_count, keep_running, task_finished_successfully,
                 agent_should_stop_this_turn, actions_len, action_item_idx>>

(***************************************************************************)
(* The correction loop of _parse_ai_response_original                      *)
(***************************************************************************)
\* the context once the correction request of this attempt is stored
WithCorrectionRequest == Append(context, Turn("user", "correction_request"))

\* one pass of the correction loop: the request is stored, the window is
\* built and send_request is called
CorrectionFrame ==
  /\ pc = "correcting"
  /\ command' = <<>>
  /\ window_context' = WindowOf(WithCorrectionRequest, 2, "None")
  /\ effects' = {"correction_request"}
  /\ UNCHANGED <<config, summary_metrics, units, plan, requests, turn_start>>

\* the corrected reply parses: the last two stored turns are removed and
\* run() goes on with the corrected data
CorrectionParsed ==
  /\ CorrectionFrame
  /\ correction_attempt < max_correction_attempts
  /\ \E cls \in ParsedClasses :
       \E n \in (IF cls = "actions" THEN 0..MaxBatch ELSE {0}) :
         HandleParsed(remove_last_n_messages(WithCorrectionRequest, 2),
                      <<Msg("correction_request", correction_attempt + 1)>>,
                      cls, n,
                      upto_after_window(WithCorrectionRequest, 2, window_size),
                      summary_after_window(WithCorrectionRequest, 2, "None", window_size))

\* mutant of CorrectionFailed: one more attempt is allowed
CorrectionFailedOneMore ==
  /\ CorrectionFrame
  /\ correction_attempt < max_correction_attempts
  /\ correction_attempt' = correction_attempt + 1
  /\ context' = WithCorrectionRequest
  /\ feedback' = <<Msg("correction_request", correction_attempt + 1)>>
  /\ summary_upto_index' = upto_after_window(WithCorrectionRequest, 2, window_size)
  /\ rolling_summary' = summary_after_window(WithCorrectionRequest, 2, "None", window_size)
  /\ UNCHANGED <<pc, summary, step_count, keep_running, task_finished_successfully,
                 agent_should_stop_this_turn, actions_len, action_item_idx>>

\* the corrected reply is missing or invalid and attempts remain
CorrectionFailed ==
  /\ CorrectionFrame
  /\ correction_attempt + 1 < max_correction_attempts
  /\ correction_attempt' = correction_attempt + 1
  /\ context' = WithCorrectionRequest
  /\ feedback' = <<Msg("correction_request", correction_attempt + 1)>>
  /\ summary_upto_index' = upto_after_window(WithCorrectionRequest, 2, window_size)
  /\ rolling_summary' = summary_after_window(WithCorrectionRequest, 2, "None", window_size)
  /\ UNCHANGED <<pc, summary, step_count, keep_running, task_finished_successfully,
                 agent_should_stop_this_turn, actions_len, action_item_idx>>

\* the last attempt is missing or invalid too: the parser returns failure
\* and run() stores the reply and a diagnostic, at line 621 and again at
\* line 634, then continues with the next step
CorrectionGiveUp ==
  /\ CorrectionFrame
  /\ correction_attempt + 1 = max_correction_attempts
  /\ Store(WithCorrectionRequest,
           <<Turn("assistant", "reply_raw"), Turn("user", "feedback"),
             Turn("assistant", "reply_raw"), Turn("user", "feedback")>>,
           <<Msg("correction_request", correction_attempt + 1),
             Msg("reply_raw", 0), Msg("could_not_parse", max_correction_attempts),
             Msg("reply_raw", 0), Msg("could_not_parse", 0)>>,
           2, "None")
  /\ NextIteration("parse_failed_continue")

(***************************************************************************)
(* The batch loop: one action per branch of the dispatch on `tool`         *)
(***************************************************************************)
\* what every branch leaves alone
DispatchFrame ==
  /\ pc = "dispatch"
  /\ UNCHANGED <<config, summary_metrics, units, window_context, requests, turn_start>>

\* mutant of Answer: the rejected action item is booked as a failed plan step
AnswerMarksStepFailed(msg) ==
  /\ Feedback(msg)
  /\ GoOn(summary)
  /\ plan' = update_plan_progress(plan, FALSE)

\* a branch that answers with one user turn, touches nothing else and goes
\* on with the batch
Answer(msg) ==
  /\ Feedback(msg)
  /\ GoOn(summary)
  /\ UNCHANGED plan

\* the action item is not a dictionary
DispatchNotADict ==
  /\ DispatchFrame
  /\ command' = <<>>
  /\ effects' = {}
  /\ Answer(Msg("item_not_a_dictionary", action_item_idx + 1))

\* the action item has no `tool` field
DispatchMissingTool ==
  /\ DispatchFrame
  /\ command' = <<>>
  /\ effects' = {}
  /\ Answer(Msg("missing_tool_field", 0))

\* tool == "finish" while a plan step is pending or in progress
DispatchFinishIncomplete ==
  /\ DispatchFrame
  /\ get_progress(plan).pending > 0 \/ get_progress(plan).in_progress > 0
  /\ command' = <<>>
  /\ effects' = {}
  /\ Answer(Msg("finish_rejected_incomplete_steps",
                get_progress(plan).pending + get_progress(plan).in_progress))

\* mutant of DispatchFinishAccepted: the batch goes on after the finish
DispatchFinishAcceptedGoesOn ==
  /\ DispatchFrame
  /\ ~(get_progress(plan).pending > 0 \/ get_progress(plan).in_progress > 0)
  /\ command' = <<>>
  /\ effects' = {}
  /\ feedback' = <<>>
  /\ task_finished_successfully' = TRUE
  /\ agent_should_stop_this_turn' = TRUE
  /\ summary' = "finish_summary"
  /\ IF MoreActions
       THEN /\ pc' = "dispatch"
            /\ action_item_idx' = action_item_idx + 1
       ELSE /\ pc' = "ask_continue"
            /\ UNCHANGED action_item_idx
  /\ UNCHANGED <<context, summary_upto_index, rolling_summary, plan, keep_running,
                 step_count, correction_attempt, actions_len>>

\* tool == "finish" with no step pending or in progress: the task is
\* finished and both loops are left
DispatchFinishAccepted ==
  /\ DispatchFrame
  /\ ~(get_progress(plan).pending > 0 \/ get_progress(plan).in_progress > 0)
  /\ command' = <<>>
  /\ pc' = "ask_continue"
  /\ summary' = "finish_summary"
  /\ task_finished_successfully' = TRUE
  /\ agent_should_stop_this_turn' = TRUE
  /\ effects' = {}
  /\ feedback' = <<>>
  /\ UNCHANGED <<context, summary_upto_index, rolling_summary, plan, keep_running,
                 step_count, correction_attempt, actions_len, action_item_idx>>

\* validate_command(command) for every command the model may send
validation == [cmd \in Commands |-> validate_command(cmd)]

\* tool == "bash": the checks made before the confirmation prompt, in the
\* order of the code
BashPreCheck(cmd, timeout) ==
  IF timeout = "invalid" THEN "invalid_timeout"
  ELSE IF cmd = <<>> THEN "no_command"
  ELSE IF block_dangerous_commands /\ ~validation[cmd].ok
    THEN "failed_security_validation"
  ELSE "passed"

\* the timeout field: absent or a positive number, or anything else
Timeouts == {"valid", "invalid"}

\* tool == "bash", stopped by one of the checks
DispatchBashRejected ==
  /\ DispatchFrame
  /\ \E cmd \in Commands, timeout \in Timeouts :
       /\ BashPreCheck(cmd, timeout) # "passed"
       /\ Answer(Msg(BashPreCheck(cmd, timeout), 0))
  /\ command' = <<>>
  /\ effects' = {}

\* tool == "bash": the user does not answer 'y' to the confirmation prompt
DispatchBashRefused ==
  /\ DispatchFrame
  /\ ~auto_accept
  /\ \E cmd \in Commands, timeout \in Timeouts :
       BashPreCheck(cmd, timeout) = "passed"
  /\ command' = <<>>
  /\ effects' = {"confirm_prompt"}
  /\ Answer(Msg("user_refused", 0))

\* mutant of SshConnectionFailed: every remote exit code 255 counts
SshConnectionFailedAny255(code, out) ==
  ssh_connection /\ code = 255

\* the connection-failure test on a remote result
SshConnectionFailed(code, out) ==
  ssh_connection /\ code = 255 /\ out = "connection_error"

ExitCodes == {0, 1, 255}
Outputs == {"plain", "connection_error"}

\* the executor called for a command
Executor == IF ssh_connection THEN "execute_remote_pexpect" ELSE "execute_local"

\* mutant of BashResult: a command that fails stops the run
BashResultStopsOnFailure(cmd, code, out) ==
  /\ command' = cmd
  /\ effects' = {Executor} \cup (IF auto_accept THEN {} ELSE {"confirm_prompt"})
  /\ IF code # 0
       THEN /\ StopRun("ssh_connection_failed")
            /\ feedback' = <<>>
            /\ UNCHANGED <<context, summary_upto_index, rolling_summary, plan>>
       ELSE /\ plan' = update_plan_progress(plan, TRUE)
            /\ Feedback(Msg("command_succeeded", code))
            /\ GoOn(summary)

\* tool == "bash" from the executor call on: the command cmd is executed
\* and the executor returns (out, code); the feedback names the exit code
BashResult(cmd, code, out) ==
  /\ command' = cmd
  /\ effects' = {Executor} \cup (IF auto_accept THEN {} ELSE {"confirm_prompt"})
  /\ IF SshConnectionFailed(code, out)
       THEN /\ StopRun("ssh_connection_failed")
            /\ feedback' = <<>>
            /\ UNCHANGED <<context, summary_upto_index, rolling_summary, plan>>
       ELSE /\ plan' = update_plan_progress(plan, code = 0)
            /\ Feedback(Msg(IF code = 0 THEN "command_succeeded"
                                        ELSE "command_failed", code))
            /\ GoOn(summary)

\* tool == "bash": the command is executed
DispatchBashExecuted ==
  /\ DispatchFrame
  /\ \E cmd \in Commands, timeout \in Timeouts, code \in ExitCodes, out \in Outputs :
       /\ BashPreCheck(cmd, timeout) = "passed"
       /\ BashResult(cmd, code, out)

\* tool == "ask_user" in autonomous mode, or without a question
DispatchAskUserRejected ==
  /\ DispatchFrame
  /\ command' = <<>>
  /\ effects' = {}
  /\ \E has_question \in BOOLEAN :
       /\ auto_accept \/ ~has_question
       /\ Answer(Msg(IF auto_accept THEN "ask_user_blocked_autonomous"
                                    ELSE "ask_user_no_question", 0))

\* mutant of DispatchAskUser: the question is put in every mode
DispatchAskUserInEveryMode ==
  /\ DispatchFrame
  /\ command' = <<>>
  /\ effects' = {"ask_prompt"}
  /\ IF MoreActions
       THEN Store(context, <<Turn("user", "feedback"), Turn("user", "feedback")>>,
                  <<Msg("user_answer", 0), Msg("proceed_to_next", 0)>>,
                  summary_upto_index, rolling_summary)
       ELSE Feedback(Msg("user_answer", 0))
  /\ GoOn(summary)
  /\ UNCHANGED plan

\* tool == "ask_user" in interactive mode: the answer is stored, followed
\* by a second turn when more action items follow
DispatchAskUser ==
  /\ DispatchFrame
  /\ ~auto_accept
  /\ command' = <<>>
  /\ effects' = {"ask_prompt"}
  /\ IF MoreActions
       THEN Store(context, <<Turn("user", "feedback"), Turn("user", "feedback")>>,
                  <<Msg("user_answer", 0), Msg("proceed_to_next", 0)>>,
                  summary_upto_index, rolling_summary)
       ELSE Feedback(Msg("user_answer", 0))
  /\ GoOn(summary)
  /\ UNCHANGED plan

\* the tools that share one shape: required fields, confirmation prompt,
\* operation, plan progress
OperationTools == {"read_file", "write_file", "list_directory", "copy_file",
                   "delete_file", "edit_file", "web_search_agent"}

\* a required field of the tool is missing (or, for web_search_agent, the
\* search agent is not installed)
DispatchToolMissingField ==
  /\ DispatchFrame
  /\ command' = <<>>
  /\ effects' = {}
  /\ \E tool \in OperationTools, installed \in BOOLEAN :
       /\ installed \/ tool = "web_search_agent"
       /\ Answer(Msg(IF installed THEN "missing_required_field"
                                  ELSE "tool_not_available", 0))

\* mutant of DispatchToolRefused: a refusal stops the run
DispatchToolRefusedStops ==
  /\ DispatchFrame
  /\ ~auto_accept
  /\ command' = <<>>
  /\ effects' = {"confirm_prompt"}
  /\ Feedback(Msg("user_refused", 0))
  /\ StopRun(summary)
  /\ UNCHANGED plan

\* the user does not confirm the operation of one of these tools
DispatchToolRefused ==
  /\ DispatchFrame
  /\ ~auto_accept
  /\ command' = <<>>
  /\ effects' = {"confirm_prompt"}
  /\ Answer(Msg("user_refused", 0))

\* mutant of DispatchToolExecuted: the operation is carried out unasked
DispatchToolExecutedUnasked ==
  /\ DispatchFrame
  /\ command' = <<>>
  /\ effects' = {"operation"}
  /\ \E success \in BOOLEAN :
       /\ Feedback(Msg(IF success THEN "operation_succeeded"
                                  ELSE "operation_failed", 0))
       /\ plan' = update_plan_progress(plan, success)
  /\ GoOn(summary)

\* the operation of one of these tools is carried out and the plan
\* progress is updated
DispatchToolExecuted ==
  /\ DispatchFrame
  /\ command' = <<>>
  /\ effects' = {"operation"} \cup (IF auto_accept THEN {} ELSE {"confirm_prompt"})
  /\ \E success \in BOOLEAN :
       /\ Feedback(Msg(IF success THEN "operation_succeeded"
                                  ELSE "operation_failed", 0))
       /\ plan' = update_plan_progress(plan, success)
  /\ GoOn(summary)

\* statuses update_plan_step accepts, and what the model may send
valid_statuses == {"completed", "failed", "skipped", "in_progress"}
SentStatuses == valid_statuses \cup {"pending", "missing"}

\* step numbers the model may send with any valid status: the first step,
\* or one past the plan
SentStepNumbers(p) == {1, Len(p) + 1}

\* the updates the model may send: those, and the start of the last step
SentUpdates(p) ==
  (SentStepNumbers(p) \X valid_statuses) \cup {<<Len(p), "in_progress">>}

\* tool == "update_plan_step" with a missing field or an invalid status
DispatchUpdatePlanStepInvalid ==
  /\ DispatchFrame
  /\ command' = <<>>
  /\ effects' = {}
  /\ \E has_number \in BOOLEAN, status \in SentStatuses :
       /\ ~has_number \/ status \notin valid_statuses
       /\ Answer(Msg(IF ~has_number \/ status = "missing"
                       THEN "update_plan_step_missing_field"
                       ELSE "invalid_status", 0))

\* tool == "update_plan_step" with a step number and a valid status
DispatchUpdatePlanStep ==
  /\ DispatchFrame
  /\ command' = <<>>
  /\ effects' = {"mark_step_status"}
  /\ \E update \in SentUpdates(plan) :
       LET step_number == update[1]
           status      == update[2]
       IN  /\ plan' = mark_step_status(plan, step_number, status)
           /\ Feedback(Msg(IF mark_step_status_ok(plan, step_number)
                             THEN "plan_step_marked"
                             ELSE "plan_step_not_found", 0))
  /\ GoOn(summary)

\* any other tool name: skipped when more action items follow, otherwise
\* agent_should_stop_this_turn is set and both loops are left with the
\* summary as it was
DispatchUnknownTool ==
  /\ DispatchFrame
  /\ command' = <<>>
  /\ effects' = {}
  /\ Feedback(Msg(IF MoreActions THEN "invalid_tool_skipping"
                                 ELSE "invalid_tool_stopping_this_turn", 0))
  /\ IF MoreActions THEN GoOn(summary) ELSE StopRun(summary)
  /\ UNCHANGED plan

(***************************************************************************)
(* After the step loop: continue the thread or stop                        *)
(***************************************************************************)
\* the user answers 'y': the previous summary and the new instruction are
\* appended, the plan is cleared and _initialize_plan makes a new one
ContinueThread ==
  /\ pc = "ask_continue"
  /\ Len(context) + 2 <= MaxContext
  /\ Store(context, <<Turn("assistant", "previous_summary"), Turn("user", "new_instruction")>>,
           <<Msg("previous_summary", 0), Msg("new_instruction", 0)>>,
           summary_upto_index, rolling_summary)
  /\ command' = <<>>
  /\ summary' = ""
  /\ plan' = <<>>
  /\ requests' = 0
  /\ window_context' = <<>>
  /\ turn_start' = Len(context')
  /\ actions_len' = 0
  /\ action_item_idx' = 0
  /\ effects' = {"continue_prompt"}
  /\ pc' = "initialize_plan"
  /\ UNCHANGED <<config, summary_metrics, units, keep_running, task_finished_successfully,
                 agent_should_stop_this_turn, step_count, correction_attempt>>

\* the user answers anything else
StopThread ==
  /\ pc = "ask_continue"
  /\ command' = <<>>
  /\ keep_running' = FALSE
  /\ pc' = "done"
  /\ effects' = {"continue_prompt"}
  /\ feedback' = <<>>
  /\ UNCHANGED <<config, summary_metrics, units, context, summary_upto_index, rolling_summary, plan,
                 summary, window_context, requests, turn_start,
                 task_finished_successfully, agent_should_stop_this_turn,
                 step_count, correction_attempt, actions_len, action_item_idx>>

(***************************************************************************)
(* Specifications.  The run is explored in two parts, each with every way  *)
(* into and out of the step loop: Spec takes replies that parse (or do not *)
(* arrive) and dispatches every tool; SpecReplies takes every kind of      *)
(* reply, the correction loop included, and dispatches the action items    *)
(* that need no tool.                                                      *)
(***************************************************************************)
Enter ==
  \/ InitializePlanWithAI
  \/ InitializePlanDefault

Leave ==
  \/ ContinueThread
  \/ StopThread

Next ==
  \/ Enter
  \/ ModelRequestNoReply
  \/ ModelRequestEmptyReply
  \/ ModelRequestParsed
  \/ DispatchNotADict
  \/ DispatchMissingTool
  \/ DispatchFinishIncomplete
  \/ DispatchFinishAccepted
  \/ DispatchBashRejected
  \/ DispatchBashRefused
  \/ DispatchBashExecuted
  \/ DispatchAskUserRejected
  \/ DispatchAskUser
  \/ DispatchToolMissingField
  \/ DispatchToolRefused
  \/ DispatchToolExecuted
  \/ DispatchUpdatePlanStepInvalid
  \/ DispatchUpdatePlanStep
  \/ DispatchUnknownTool
  \/ Leave

Spec == Init /\ [][Next]_vars

\* the run restricted to bash actions and plan updates
NextBash ==
  \/ Enter
  \/ ModelRequestParsed
  \/ DispatchBashRejected
  \/ DispatchBashRefused
  \/ DispatchBashExecuted
  \/ DispatchUpdatePlanStep

SpecBash == Init /\ [][NextBash]_vars

NextReplies ==
  \/ Enter
  \/ ModelRequestNoReply
  \/ ModelRequestEmptyReply
  \/ ModelRequestParsed
  \/ ModelRequestInvalid
  \/ CorrectionParsed
  \/ CorrectionFailed
  \/ CorrectionGiveUp
  \/ DispatchNotADict
  \/ DispatchFinishIncomplete
  \/ DispatchFinishAccepted
  \/ DispatchUnknownTool
  \/ Leave

SpecReplies == InitReplies /\ [][NextReplies]_vars

SpecRepliesLive == SpecReplies /\ WF_vars(NextReplies)

(***************************************************************************)
(* The context store on its own: any caller of add_message and             *)
(* get_sliding_window_context                                              *)
(***************************************************************************)
\* turns a caller may add
AddedTurns == {Turn("user", "feedback"), Turn("assistant", "reply_json")}

\* the state argument: None, an empty dictionary, a non-empty dictionary
States == {"none", "empty", "set"}

\* what the context store does not touch
StoreFrame ==
  UNCHANGED <<config, units, plan, summary, command, pc, keep_running,
              task_finished_successfully, agent_should_stop_this_turn,
              step_count, correction_attempt, actions_len, action_item_idx,
              requests, turn_start, effects>>

\* add_message(role, content)
AddMessage ==
  /\ Len(context) < MaxTurns
  /\ \E turn \in AddedTurns :
       Store(context, <<turn>>, <<>>, summary_upto_index, rolling_summary)
  /\ UNCHANGED <<window_context, summary_metrics>>
  /\ StoreFrame

\* what the summarizer model may answer: a text, nothing, or an exception
SummarizerReplies ==
  {[kind |-> "text", text |-> t] : t \in {<<"a">>, <<"a", "b", " ">>, <<"a", "b", "c">>}}
    \cup {[kind |-> k, text |-> <<>>] : k \in {"nothing", "raises"}}

\* whether get_sliding_window_context has new messages to summarize
UpdateDue ==
  /\ Len(context) > 2 + window_size
  /\ new_messages(context, summary_upto_index, window_size) # <<>>

\* get_sliding_window_context(state)
GetSlidingWindowContext ==
  /\ \E state \in States :
       window_context' = get_sliding_window_context(context, summary_upto_index,
                                                    rolling_summary, window_size, state)
  /\ summary_upto_index' = upto_after_window(context, summary_upto_index, window_size)
  /\ \E reply \in SummarizerReplies :
       LET update == rolling_summary_update(rolling_summary, reply, summary_char_limit)
       IN  /\ summarizer' = IF UpdateDue THEN reply
                                          ELSE [kind |-> "not_called", text |-> <<>>]
           /\ rolling_summary' = IF UpdateDue THEN update.summary ELSE rolling_summary
           /\ truncation_count' =
                IF UpdateDue THEN truncation_count + update.truncations
                ELSE truncation_count
  /\ UNCHANGED <<context, feedback, summary_char_limit>>
  /\ StoreFrame

InitWindow ==
  /\ auto_accept = TRUE
  /\ block_dangerous_commands = TRUE
  /\ ssh_connection = FALSE
  /\ window_size \in 0..MaxWindow
  /\ summary_char_limit \in 0..MaxSummary
  /\ max_concurrent_fetches = 5
  /\ Constructed
  /\ Idle

NextWindow ==
  \/ AddMessage
  \/ GetSlidingWindowContext

SpecWindow == InitWindow /\ [][NextWindow]_vars

(***************************************************************************)
(* The collaborators on their own, each called by any caller               *)
(***************************************************************************)
\* a local terminal with the default settings, nothing called yet
InitUnit ==
  /\ auto_accept = TRUE
  /\ block_dangerous_commands = TRUE
  /\ ssh_connection = FALSE
  /\ window_size = MaxWindow
  /\ summary_char_limit = 5000
  /\ max_concurrent_fetches = 5
  /\ Constructed
  /\ Idle

\* commands built around the denylist entries: each entry as written, in
\* lower case and in upper case, alone or inside a longer command
DenylistProbes ==
  LET Upper(s) == [i \in 1..Len(s) |->
                     IF \E k \in 1..26 : LowerCase[k] = s[i]
                       THEN UpperCase[CHOOSE k \in 1..26 : LowerCase[k] = s[i]]
                       ELSE s[i]]
  IN  {pre \o d \o suf :
         d \in dangerous_commands \cup {Lower(e) : e \in dangerous_commands}
                 \cup {Upper(e) : e \in dangerous_commands},
         pre \in {<<>>, <<"x", ";", " ">>},
         suf \in {<<>>, <<" ", "x">>}}

\* chains of two safe commands, and commands with pipes and redirections
SafeChains ==
  { <<"a"," ","&","&"," ","b">>,
    <<"a","&","&","b">>,
    <<"a"," ","|","|"," ","b">>,
    <<"l","s"," ","x"," ","&","&"," ","l","s"," ","y">>,
    <<"a"," ","&","&"," ","b"," ","|","|"," ","c">>,
    <<"a"," ","|"," ","b">>,
    <<"a"," ",">"," ","f">>,
    <<"a"," ",">",">"," ","f">>,
    <<"a"," ","<"," ","f">>,
    <<"a"," ","2",">","&","1">>,
    <<"a"," ","|"," ","b"," ",">"," ","f">>,
    <<"a"," ","&">> }

\* chains with an empty segment
MalformedChains ==
  { <<"&","&"," ","a">>,
    <<"a"," ","&","&">>,
    <<"a"," ","&","&"," ">>,
    <<"a"," ","&","&"," ","&","&"," ","b">>,
    <<"a","&","&","&","&","b">>,
    <<"|","|"," ","a">>,
    <<"a"," ","|","|">>,
    <<"a"," ","|","|"," ","|","|"," ","b">>,
    <<"a"," ","&","&"," ","b"," ","|","|">>,
    <<"&","&">>,
    <<"|","|">> }

\* commands that hold an injection metacharacter somewhere
InjectionProbes ==
  { <<";","a">>,
    <<"a",";","b">>,
    <<"a",";">>,
    <<"a"," ",";"," ","b">>,
    <<Backquote,"a",Backquote>>,
    <<"a"," ",Backquote,"b",Backquote>>,
    <<"a",Backquote>>,
    <<"$","(","a",")">>,
    <<"a"," ","$","(","b",")">>,
    <<"a","$","(">>,
    <<"$","{","a","}">>,
    <<"a"," ","$","{","b","}">>,
    <<"a","$","{">>,
    <<"a"," ","&","&"," ","b",";","c">>,
    <<"a"," ","|","|"," ",Backquote,"b",Backquote>>,
    <<"a"," ","|"," ","$","(","b",")">>,
    <<"a"," ",">"," ","$","{","f","}">> }

\* interactive programs, alone, with arguments and by path, and programs
\* whose name ends like one of them
InteractiveProbes ==
  { <<"v","i">>,
    <<"v","i","m"," ","x">>,
    <<"n","a","n","o"," ","x">>,
    <<"e","m","a","c","s">>,
    <<"l","e","s","s"," ","f">>,
    <<"m","o","r","e"," ","f">>,
    <<"t","o","p">>,
    <<"h","t","o","p">>,
    <<"m","c">>,
    <<"p","a","s","s","w","d">>,
    <<"s","u">>,
    <<" ","v","i"," ","x">>,
    <<"/","u","s","r","/","b","i","n","/","v","i","m"," ","x">>,
    <<"s","u"," ","-">>,
    <<"i","o","t","o","p"," ","-","b">>,
    <<"g","v","i","m"," ","x">>,
    <<"z","m","o","r","e"," ","f">>,
    <<"s","u","m","o">>,
    <<"v","i","s">>,
    <<"a"," ","v","i">>,
    <<"l","s"," ","|"," ","m","o","r","e">>,
    <<"t","o","p","x">> }

\* validate_command(command)
ValidateCommand ==
  /\ \E cmd \in DenylistProbes \cup Commands \cup SafeChains \cup MalformedChains
                  \cup InjectionProbes \cup InteractiveProbes :
       /\ call' = [op |-> "validate_command", command |-> cmd]
       /\ returned' = validate_command(cmd)
  /\ UNCHANGED <<runner, plan, attempt, slept, max_concurrent_fetches, request_history, tasks>>

SpecValidator == InitUnit /\ [][ValidateCommand]_vars

\* the entries a caller may put into steps_data: dictionaries with or
\* without a description, and a string where a dictionary belongs
PlanEntries ==
  {[type |-> "dict", description |-> d] : d \in {"a", "b", "absent"}}
    \cup {[type |-> "str", description |-> "absent"]}

\* the lists of up to MaxPlanSteps entries
StepsData ==
  UNION {[1..n -> PlanEntries] : n \in 0..MaxPlanSteps}

\* create_plan(goal, steps_data)
CreatePlan ==
  /\ \E steps_data \in StepsData :
       /\ call' = [op |-> "create_plan", steps_data |-> steps_data, steps |-> plan]
       /\ plan' = create_plan(steps_data)
       /\ returned' = IF create_plan_raises(steps_data) THEN "raised" ELSE "steps"
  /\ UNCHANGED <<runner, attempt, slept, max_concurrent_fetches, request_history, tasks>>

\* mark_step_status(step_number, status)
MarkStepStatus ==
  /\ \E step_number \in 0..(MaxPlanSteps + 1), status \in StepStatus :
       /\ call' = [op |-> "mark_step_status", step_number |-> step_number,
                   status |-> status, steps |-> plan]
       /\ plan' = mark_step_status(plan, step_number, status)
       /\ returned' = IF mark_step_status_ok(plan, step_number) THEN "true" ELSE "false"
  /\ UNCHANGED <<runner, attempt, slept, max_concurrent_fetches, request_history, tasks>>

\* the update_plan_step branch of run() for one action item: the plan it
\* leaves and the feedback it stores
update_plan_step(p, action_item) ==
  IF ~action_item.has_step_number \/ action_item.status = "missing"
    THEN [plan |-> p, feedback |-> "update_plan_step_missing_field"]
  ELSE IF action_item.status \notin valid_statuses
    THEN [plan |-> p, feedback |-> "invalid_status"]
  ELSE [plan |-> mark_step_status(p, action_item.step_number, action_item.status),
        feedback |-> IF mark_step_status_ok(p, action_item.step_number)
                       THEN "plan_step_marked" ELSE "plan_step_not_found"]

\* the update_plan_step action items a reply may hold: with or without a
\* step number, with a status of the enum, another word, or none
UpdateItems ==
  [has_step_number : BOOLEAN, step_number : 0..(MaxPlanSteps + 1),
   status : SentStatuses \cup {"done"}]

\* tool == "update_plan_step" on its own
UpdatePlanStep ==
  /\ \E action_item \in UpdateItems :
       /\ call' = [op |-> "update_plan_step", action_item |-> action_item,
                   steps |-> plan]
       /\ plan' = update_plan_step(plan, action_item).plan
       /\ returned' = update_plan_step(plan, action_item).feedback
  /\ UNCHANGED <<runner, attempt, slept, max_concurrent_fetches, request_history, tasks>>

NextPlan ==
  \/ CreatePlan
  \/ MarkStepStatus
  \/ UpdatePlanStep

SpecPlan == InitUnit /\ [][NextPlan]_vars

(***************************************************************************)
(* JsonValidator and the JSON library it calls                             *)
(***************************************************************************)
\* A JSON value is [t |-> type, v |-> content]: "num" with a digit's value,
\* "str" with its characters, "null", "arr" with the sequence of its
\* elements, "obj" with the sequence of its members [k, val] in insertion
\* order (a Python dict).
DigitChars == <<"0", "1", "2", "3", "4", "5", "6", "7", "8", "9">>
Quote == "\""
JsonNull == [t |-> "null", v |-> 0]

\* text.lstrip() on the JSON whitespace
SkipWs(s) ==
  LET nonws == {i \in 1..Len(s) : s[i] \notin Whitespace}
  IN  IF nonws = {} THEN <<>>
      ELSE SubSeq(s, CHOOSE i \in nonws : \A j \in nonws : i <= j, Len(s))

\* the decoder's result where the text is no JSON
JsonFail == [ok |-> FALSE, val |-> JsonNull, rest |-> <<>>]

\* the decoder on a text that starts with a quote: the string of letters up
\* to the next quote
json_string(s) ==
  LET closing == {j \in 2..Len(s) : s[j] = Quote}
      IsLetter(c) == \E k \in 1..26 : LowerCase[k] = c \/ UpperCase[k] = c
  IN  IF closing = {} THEN JsonFail
      ELSE LET j == CHOOSE c \in closing : \A d \in closing : c <= d
           IN  IF \A i \in 2..(j - 1) : IsLetter(s[i])
                 THEN [ok |-> TRUE, val |-> [t |-> "str", v |-> SubSeq(s, 2, j - 1)],
                       rest |-> SubSeq(s, j + 1, Len(s))]
                 ELSE JsonFail

\* dict[k] = val: a repeated key keeps its place and takes the new value
dict_put(members, k, val) ==
  IF \E i \in 1..Len(members) : members[i].k = k
    THEN [i \in 1..Len(members) |->
            IF members[i].k = k THEN [k |-> k, val |-> val] ELSE members[i]]
    ELSE Append(members, [k |-> k, val |-> val])

\* the decoder of json.loads on one-digit numbers, strings of letters, null,
\* arrays and objects: one value, the elements of an array after `[`, the
\* members of an object after `{`; each gives [ok, val, rest]
RECURSIVE json_value(_), json_elements(_, _), json_members(_, _)
json_value(s0) ==
  LET s == SkipWs(s0)
  IN  IF s = <<>> THEN JsonFail
      ELSE IF \E n \in 1..10 : DigitChars[n] = s[1]
        THEN [ok |-> TRUE,
              val |-> [t |-> "num", v |-> (CHOOSE n \in 1..10 : DigitChars[n] = s[1]) - 1],
              rest |-> Tail(s)]
      ELSE IF s[1] = Quote THEN json_string(s)
      ELSE IF Len(s) >= 4 /\ SubSeq(s, 1, 4) = <<"n", "u", "l", "l">>
        THEN [ok |-> TRUE, val |-> JsonNull, rest |-> SubSeq(s, 5, Len(s))]
      ELSE IF s[1] = "["
        THEN LET r == SkipWs(Tail(s))
             IN  IF r # <<>> /\ r[1] = "]"
                   THEN [ok |-> TRUE, val |-> [t |-> "arr", v |-> <<>>], rest |-> Tail(r)]
                   ELSE json_elements(r, <<>>)
      ELSE IF s[1] = "{"
        THEN LET r == SkipWs(Tail(s))
             IN  IF r # <<>> /\ r[1] = "}"
                   THEN [ok |-> TRUE, val |-> [t |-> "obj", v |-> <<>>], rest |-> Tail(r)]
                   ELSE json_members(r, <<>>)
      ELSE JsonFail

json_elements(s, acc) ==
  LET e == json_value(s)
      r == SkipWs(e.rest)
  IN  IF ~e.ok \/ r = <<>> THEN JsonFail
      ELSE IF r[1] = "," THEN json_elements(Tail(r), Append(acc, e.val))
      ELSE IF r[1] = "]"
        THEN [ok |-> TRUE, val |-> [t |-> "arr", v |-> Append(acc, e.val)], rest |-> Tail(r)]
      ELSE JsonFail

json_members(s0, acc) ==
  LET s == SkipWs(s0)
      key == IF s # <<>> /\ s[1] = Quote THEN json_string(s) ELSE JsonFail
      c == SkipWs(key.rest)
      e == IF key.ok /\ c # <<>> /\ c[1] = ":" THEN json_value(Tail(c)) ELSE JsonFail
      r == SkipWs(e.rest)
  IN  IF ~e.ok \/ r = <<>> THEN JsonFail
      ELSE IF r[1] = "," THEN json_members(Tail(r), dict_put(acc, key.val.v, e.val))
      ELSE IF r[1] = "}"
        THEN [ok |-> TRUE, val |-> [t |-> "obj", v |-> dict_put(acc, key.val.v, e.val)],
              rest |-> Tail(r)]
      ELSE JsonFail

\* json.loads(text): [ok, val]; ok is false where it raises JSONDecodeError
json_loads(text) ==
  LET top == json_value(text)
  IN  IF top.ok /\ SkipWs(top.rest) = <<>>
        THEN [ok |-> TRUE, val |-> top.val]
        ELSE [ok |-> FALSE, val |-> JsonNull]

\* ", ".join(parts[k:])
RECURSIVE json_join(_, _)
json_join(parts, k) ==
  IF k > Len(parts) THEN <<>>
  ELSE parts[k] \o (IF k < Len(parts) THEN <<",", " ">> ELSE <<>>) \o json_join(parts, k + 1)

\* mutant of json_dumps: strings and keys are written in single quotes, as
\* str(data) writes them
RECURSIVE json_dumps_single_quotes(_)
json_dumps_single_quotes(d) ==
  CASE d.t = "num"  -> <<DigitChars[d.v + 1]>>
    [] d.t = "str"  -> <<"'">> \o d.v \o <<"'">>
    [] d.t = "null" -> <<"n", "u", "l", "l">>
    [] d.t = "arr"  ->
         <<"[">> \o json_join([i \in 1..Len(d.v) |-> json_dumps_single_quotes(d.v[i])], 1)
                 \o <<"]">>
    [] d.t = "obj"  ->
         <<"{">> \o json_join([i \in 1..Len(d.v) |->
                                 <<"'">> \o d.v[i].k \o <<"'", ":", " ">>
                                   \o json_dumps_single_quotes(d.v[i].val)], 1)
                 \o <<"}">>

\* json.dumps(data, ensure_ascii=False): separators ", " and ": ", members
\* in insertion order
RECURSIVE json_dumps(_)
json_dumps(d) ==
  CASE d.t = "num"  -> <<DigitChars[d.v + 1]>>
    [] d.t = "str"  -> <<Quote>> \o d.v \o <<Quote>>
    [] d.t = "null" -> <<"n", "u", "l", "l">>
    [] d.t = "arr"  ->
         <<"[">> \o json_join([i \in 1..Len(d.v) |-> json_dumps(d.v[i])], 1) \o <<"]">>
    [] d.t = "obj"  ->
         <<"{">> \o json_join([i \in 1..Len(d.v) |->
                                 <<Quote>> \o d.v[i].k \o <<Quote, ":", " ">>
                                   \o json_dumps(d.v[i].val)], 1)
                 \o <<"}">>

\* _clean_response(response): strip, then re.sub of ^```json\s*, ^```\s*,
\* ```\s*$ and ^json\s* (letter case ignored) in this order, then strip
clean_response(response) ==
  LET fence == <<Backquote, Backquote, Backquote>>
      LStrip(s) ==
        LET nonws == {i \in 1..Len(s) : s[i] \notin Whitespace}
        IN  IF nonws = {} THEN <<>>
            ELSE SubSeq(s, CHOOSE i \in nonws : \A j \in nonws : i <= j, Len(s))
      RStrip(s) ==
        LET nonws == {i \in 1..Len(s) : s[i] \notin Whitespace}
        IN  IF nonws = {} THEN <<>>
            ELSE SubSeq(s, 1, CHOOSE i \in nonws : \A j \in nonws : j <= i)
      DropPrefix(s, p) ==
        IF Len(s) >= Len(p) /\ Lower(SubSeq(s, 1, Len(p))) = p
          THEN LStrip(SubSeq(s, Len(p) + 1, Len(s)))
          ELSE s
      DropFenceAtEnd(s) ==
        IF EndsWith(RStrip(s), fence)
          THEN SubSeq(s, 1, Len(RStrip(s)) - 3)
          ELSE s
      s1 == DropPrefix(Strip(response), fence \o <<"j", "s", "o", "n">>)
      s2 == DropPrefix(s1, fence)
      s3 == DropFenceAtEnd(s2)
      s4 == DropPrefix(s3, <<"j", "s", "o", "n">>)
  IN  Strip(s4)

\* mutant of validate_response: no check of the argument before it is cleaned
validate_response_unguarded(ai_response, later, recovered) ==
  IF ai_response.type # "str"
    THEN [raised |-> TRUE, success |-> FALSE, data |-> JsonNull,
          error |-> [msg |-> "", sample |-> <<>>]]
    ELSE [raised |-> FALSE, success |-> TRUE, data |-> recovered,
          error |-> [msg |-> "", sample |-> <<>>]]

\* validate_response(ai_response) in FLEXIBLE mode.  The first strategy is
\* json.loads on the cleaned response, which yields nothing for the text
\* null; `later` is what the strategies after it (json5, YAML, regular
\* expressions) come to: "data" when one of them returns `recovered`,
\* "none" when all return None, "raises" when some raise and none returns data
validate_response(ai_response, later, recovered) ==
  LET direct == json_loads(clean_response(ai_response.text))
      text   == ai_response.text
  IN  IF ai_response.type # "str" \/ ai_response.text = <<>>
        THEN [raised |-> FALSE, success |-> FALSE, data |-> JsonNull,
              error |-> [msg |-> "Response must be a non-empty string", sample |-> <<>>]]
      ELSE IF direct.ok /\ direct.val # JsonNull
        THEN [raised |-> FALSE, success |-> TRUE, data |-> direct.val,
              error |-> [msg |-> "", sample |-> <<>>]]
      ELSE IF later = "data"
        THEN [raised |-> FALSE, success |-> TRUE, data |-> recovered,
              error |-> [msg |-> "", sample |-> <<>>]]
      ELSE [raised |-> FALSE, success |-> FALSE, data |-> JsonNull,
            error |-> [msg    |-> "JSON validation failed with the following errors",
                       sample |-> IF Len(text) > sample_length
                                    THEN SubSeq(text, 1, sample_length) \o <<".", ".", ".">>
                                    ELSE text]]

\* the first branch of _parse_ai_response_with_enhanced_validator: the
\* validator's triple and, on success, json.dumps(data) as ai_reply_json_string
parse_with_enhanced_validator(ai_response, later, recovered) ==
  LET triple == validate_response(ai_response, later, recovered)
  IN  [raised  |-> triple.raised,
       success |-> triple.success,
       data    |-> triple.data,
       error   |-> triple.error,
       ai_reply_json_string |-> IF triple.success THEN json_dumps(triple.data) ELSE <<>>]

\* JSON texts: the values an array or an object may hold, with or without
\* blanks around the punctuation
JsonTexts ==
  LET q(c) == <<Quote, c, Quote>>
      Values == {<<"1">>, q("a"), <<"n", "u", "l", "l">>, <<"[", "7", "]">>,
                 <<"{">> \o q("b") \o <<":", "2", "}">>}
      Blanks == {<<>>, <<" ">>}
      Arrays(w) ==
        {<<"[">> \o w \o <<"]">>}
          \cup {<<"[">> \o w \o a \o w \o <<"]">> : a \in Values}
          \cup {<<"[">> \o w \o a \o w \o <<",">> \o w \o b \o <<"]">> : a \in Values, b \in Values}
      Objects(w) ==
        {<<"{">> \o w \o <<"}">>}
          \cup {<<"{">> \o q(k) \o w \o <<":">> \o w \o a \o <<"}">> : k \in {"a", "b"}, a \in Values}
          \cup {<<"{">> \o q("a") \o <<":">> \o w \o a \o <<",">> \o w \o q(k) \o <<":">> \o b \o w \o <<"}">> :
                  k \in {"a", "b"}, a \in {<<"1">>, q("a")}, b \in Values}
  IN  UNION {Arrays(w) \cup Objects(w) : w \in Blanks}

\* what a caller may pass: JSON texts, bare or wrapped by the model in a
\* fence or a label, scalars, broken JSON, prose, blank and empty text, and
\* values that are not strings
Responses ==
  LET fence == <<Backquote, Backquote, Backquote>>
      object == <<"{", Quote, "a", Quote, ":", " ", "1", "}">>
      Texts ==
        JsonTexts
          \cup {fence \o <<"j", "s", "o", "n", "\n">> \o object \o <<"\n">> \o fence,
                fence \o <<"\n">> \o object \o <<"\n">> \o fence,
                <<"J", "S", "O", "N", " ">> \o object,
                <<" ", "\n">> \o object \o <<"\n">>,
                <<"5">>, <<"n", "u", "l", "l">>, <<Quote, "a", Quote>>,
                <<"{", Quote, "a", Quote, ":">>, <<"[", "1", ",", "]">>,
                <<"o", "k">>, <<" ">>, <<>>}
  IN  {[type |-> "str", text |-> t] : t \in Texts}
        \cup {[type |-> ty, text |-> <<>>] : ty \in {"NoneType", "int"}}

\* _parse_ai_response_with_enhanced_validator(ai_reply) up to the fallback
ParseAiResponse ==
  /\ \E ai_response \in Responses, later \in {"none", "raises", "data"} :
       /\ call' = [op |-> "validate_response", ai_response |-> ai_response, later |-> later]
       /\ returned' = parse_with_enhanced_validator(ai_response, later,
                                                    [t |-> "obj", v |-> <<>>])
  /\ UNCHANGED <<runner, plan, attempt, slept, max_concurrent_fetches, request_history, tasks>>

SpecParser == InitUnit /\ [][ParseAiResponse]_vars

(***************************************************************************)
(* AICommunicationHandler.send_request                                     *)
(***************************************************************************)
\* how one attempt may fail: _call_ai_api raises, it returns an empty
\* response, or (json format) _process_json_response finds no JSON
AttemptFailures(request_format) ==
  {"api_raises", "empty_response"}
    \cup (IF request_format = "json" THEN {"invalid_json"} ELSE {})

\* whether a call of send_request is under way
Sending == attempt >= 1 /\ ~returned.done

\* send_request(system_prompt, user_prompt, request_format) is entered
SendRequest ==
  /\ ~Sending
  /\ \E request_format \in {"json", "text"} :
       call' = [op |-> "send_request", request_format |-> request_format, outcomes |-> <<>>]
  /\ attempt' = 1
  /\ slept' = <<>>
  /\ returned' = [done |-> FALSE, value |-> "None"]
  /\ UNCHANGED <<runner, plan, max_concurrent_fetches, request_history, tasks>>

\* the attempt gets a response (with JSON in it when the format is json):
\* send_request returns it
AttemptSucceeds ==
  /\ Sending
  /\ call' = [call EXCEPT !.outcomes = Append(@, "response")]
  /\ returned' = [done |-> TRUE, value |-> "response"]
  /\ UNCHANGED <<runner, plan, attempt, slept, max_concurrent_fetches, request_history, tasks>>

\* mutant of AttemptFails: the handler sleeps after the last attempt as well
AttemptFailsSleepsAlways ==
  /\ Sending
  /\ \E failure \in AttemptFailures(call.request_format) :
       call' = [call EXCEPT !.outcomes = Append(@, failure)]
  /\ slept' = Append(slept, base_delay * attempt)
  /\ IF attempt < max_attempts
       THEN attempt' = attempt + 1 /\ UNCHANGED returned
       ELSE returned' = [done |-> TRUE, value |-> "None"] /\ UNCHANGED attempt
  /\ UNCHANGED <<runner, plan, max_concurrent_fetches, request_history, tasks>>

\* the attempt fails: the except clause sleeps base_delay * attempt and the
\* loop goes on while attempts remain, else send_request returns None
AttemptFails ==
  /\ Sending
  /\ \E failure \in AttemptFailures(call.request_format) :
       call' = [call EXCEPT !.outcomes = Append(@, failure)]
  /\ IF attempt < max_attempts
       THEN /\ slept' = Append(slept, base_delay * attempt)
            /\ attempt' = attempt + 1
            /\ UNCHANGED returned
       ELSE /\ returned' = [done |-> TRUE, value |-> "None"]
            /\ UNCHANGED <<attempt, slept>>
  /\ UNCHANGED <<runner, plan, max_concurrent_fetches, request_history, tasks>>

NextTransport ==
  \/ SendRequest
  \/ AttemptSucceeds
  \/ AttemptFails

SpecTransport == InitUnit /\ [][NextTransport]_vars

(***************************************************************************)
(* WebSearchAgent._extract_content_batch_async                             *)
(***************************************************************************)
\* a task is waiting for the semaphore, fetching, or ended: with the page
\* text, with the empty string (the fetch failed and was logged), or with
\* an exception that left the coroutine
Finished == {"text", "empty", "exception"}

\* the fetches in flight
InFlight == {i \in 1..Len(tasks) : tasks[i] = "fetching"}

\* whether a batch is under way
Fetching == call # <<>> /\ call.op = "extract_content_batch" /\ ~returned.done

\* a positive fetch limit, nothing called yet
InitFetch ==
  /\ auto_accept = TRUE
  /\ block_dangerous_commands = TRUE
  /\ ssh_connection = FALSE
  /\ window_size = MaxWindow
  /\ summary_char_limit = 5000
  /\ max_concurrent_fetches \in 1..MaxConcurrent
  /\ Constructed
  /\ Idle

\* _extract_content_batch_async(urls) is entered: with aiohttp one task per
\* URL is created for gather, without it the URLs are fetched one by one
ExtractContentBatch ==
  /\ ~Fetching
  /\ \E n \in 0..MaxUrls, aiohttp \in BOOLEAN :
       /\ call' = [op |-> "extract_content_batch", urls |-> n, aiohttp |-> aiohttp,
                   peak |-> 0]
       /\ tasks' = [i \in 1..n |-> "waiting"]
  /\ returned' = [done |-> FALSE, results |-> <<>>]
  /\ UNCHANGED <<runner, plan, attempt, slept, max_concurrent_fetches, request_history>>

\* mutant of FetchWithSemaphore: the tasks start without the semaphore
FetchWithoutSemaphore ==
  /\ Fetching
  /\ \E i \in 1..Len(tasks) :
       /\ tasks[i] = "waiting"
       /\ tasks' = [tasks EXCEPT ![i] = "fetching"]
  /\ call' = [call EXCEPT !.peak = IF Cardinality(InFlight) + 1 > @
                                     THEN Cardinality(InFlight) + 1 ELSE @]
  /\ UNCHANGED <<runner, plan, attempt, slept, max_concurrent_fetches, request_history, returned>>

\* fetch_with_semaphore(url, session) enters `async with semaphore` and
\* starts the fetch; the fallback list comprehension starts the next URL
\* when the one before it has ended
FetchWithSemaphore ==
  /\ Fetching
  /\ \E i \in 1..Len(tasks) :
       /\ tasks[i] = "waiting"
       /\ IF call.aiohttp
            THEN Cardinality(InFlight) < max_concurrent_fetches
            ELSE \A j \in 1..(i - 1) : tasks[j] \in Finished
       /\ tasks' = [tasks EXCEPT ![i] = "fetching"]
  /\ call' = [call EXCEPT !.peak = IF Cardinality(InFlight) + 1 > @
                                     THEN Cardinality(InFlight) + 1 ELSE @]
  /\ UNCHANGED <<runner, plan, attempt, slept, max_concurrent_fetches, request_history, returned>>

\* _extract_content_async / _extract_content returns: the text of the page,
\* or "" after a failure it caught; the semaphore is released
ExtractContentReturns ==
  /\ Fetching
  /\ \E i \in InFlight, result \in {"text", "empty"} :
       tasks' = [tasks EXCEPT ![i] = result]
  /\ UNCHANGED <<runner, plan, attempt, slept, max_concurrent_fetches, request_history, call, returned>>

\* an exception leaves fetch_with_semaphore (gather keeps it as the task's
\* result); the semaphore is released
ExtractContentRaises ==
  /\ Fetching
  /\ call.aiohttp
  /\ \E i \in InFlight : tasks' = [tasks EXCEPT ![i] = "exception"]
  /\ UNCHANGED <<runner, plan, attempt, slept, max_concurrent_fetches, request_history, call, returned>>

\* gather has every result: processed_results is returned, with "" (here 0)
\* for an exception and the content (here the URL's index, 0 when empty) otherwise
BatchReturns ==
  /\ Fetching
  /\ \A i \in 1..Len(tasks) : tasks[i] \in Finished
  /\ returned' = [done |-> TRUE,
                  results |-> [i \in 1..Len(tasks) |-> IF tasks[i] = "text" THEN i ELSE 0]]
  /\ UNCHANGED <<runner, plan, attempt, slept, max_concurrent_fetches, request_history, call, tasks>>

NextFetch ==
  \/ ExtractContentBatch
  \/ FetchWithSemaphore
  \/ ExtractContentReturns
  \/ ExtractContentRaises
  \/ BatchReturns

SpecFetch == InitFetch /\ [][NextFetch]_vars

(***************************************************************************)
(* ContextManager.request_history                                          *)
(***************************************************************************)
\* A record is written as the serial number of its request: the request
\* ids are fresh (uuid4), the n-th recorded one is n.
NextRequestId ==
  IF request_history = <<>>
    THEN (IF call # <<>> /\ call.op \in {"record_request", "cleanup_request_history",
                                          "run_records_reply"}
            THEN call.recorded + 1 ELSE 1)
    ELSE request_history[Len(request_history)] + 1

\* cleanup_request_history(max_entries): request_history[-max_entries:]
\* when it holds more than max_entries records
cleanup_request_history(history, max_entries) ==
  IF Len(history) > max_entries THEN LastSlice(history, max_entries) ELSE history

\* the records made so far
Recorded == IF call = <<>> THEN 0 ELSE call.recorded

\* record_request(request_id, step, assistant_json)
RecordRequest ==
  /\ NextRequestId <= MaxRecords
  /\ call' = [op |-> "record_request", max_entries |-> 0, history |-> request_history,
              recorded |-> Recorded + 1]
  /\ request_history' = Append(request_history, NextRequestId)
  /\ returned' = "none"
  /\ UNCHANGED <<runner, plan, attempt, slept, max_concurrent_fetches, tasks>>

\* cleanup_request_history(max_entries)
CleanupRequestHistory ==
  /\ \E max_entries \in {0, default_max_entries, default_max_entries + 1} :
       /\ call' = [op |-> "cleanup_request_history", max_entries |-> max_entries,
                   history |-> request_history, recorded |-> Recorded]
       /\ request_history' = cleanup_request_history(request_history, max_entries)
  /\ returned' = "none"
  /\ UNCHANGED <<runner, plan, attempt, slept, max_concurrent_fetches, tasks>>

\* run() after a parsed reply: record_request, then _cleanup_request_history()
\* with its default of 1000 entries
RunRecordsReply ==
  /\ NextRequestId <= MaxRecords
  /\ call' = [op |-> "run_records_reply", max_entries |-> default_max_entries,
              history |-> request_history, recorded |-> Recorded + 1]
  /\ request_history' =
       cleanup_request_history(Append(request_history, NextRequestId), default_max_entries)
  /\ returned' = "none"
  /\ UNCHANGED <<runner, plan, attempt, slept, max_concurrent_fetches, tasks>>

NextHistory ==
  \/ RecordRequest
  \/ CleanupRequestHistory
  \/ RunRecordsReply

SpecHistory == InitUnit /\ [][NextHistory]_vars

(***************************************************************************)
(* AICommunicationHandler._extract_first_json_object                       *)
(***************************************************************************)
Backslash == "\\"

\* the value returned: None, or the substring
NoObject == [found |-> FALSE, text |-> <<>>]

\* text.find(open_char) as a 1-based position, 0 when there is none
find(text, char) ==
  IF \E i \in 1..Len(text) : text[i] = char
    THEN CHOOSE i \in 1..Len(text) : text[i] = char /\ \A j \in 1..(i - 1) : text[j] # char
    ELSE 0

\* mutant of extract_first_json_object: plain depth counting, string
\* literals are not tracked
RECURSIVE scan_ignoring_strings(_, _, _, _, _, _)
scan_ignoring_strings(text, open_char, close_char, start_idx, i, depth) ==
  IF i > Len(text) THEN NoObject
  ELSE IF text[i] = open_char
    THEN scan_ignoring_strings(text, open_char, close_char, start_idx, i + 1, depth + 1)
  ELSE IF text[i] = close_char
    THEN IF depth - 1 = 0
           THEN [found |-> TRUE, text |-> SubSeq(text, start_idx, i)]
           ELSE scan_ignoring_strings(text, open_char, close_char, start_idx, i + 1, depth - 1)
  ELSE scan_ignoring_strings(text, open_char, close_char, start_idx, i + 1, depth)

extract_first_json_object_ignoring_strings(text, open_char, close_char) ==
  IF find(text, open_char) = 0 THEN NoObject
  ELSE scan_ignoring_strings(text, open_char, close_char, find(text, open_char),
                             find(text, open_char), 0)

\* the for loop of _extract_first_json_object from position i on
RECURSIVE scan(_, _, _, _, _, _, _, _)
scan(text, open_char, close_char, start_idx, i, depth, in_string, escape_next) ==
  IF i > Len(text) THEN NoObject
  ELSE LET char == text[i]
       IN  IF escape_next
             THEN scan(text, open_char, close_char, start_idx, i + 1, depth, in_string, FALSE)
           ELSE IF char = Backslash /\ in_string
             THEN scan(text, open_char, close_char, start_idx, i + 1, depth, in_string, TRUE)
           ELSE IF char = Quote
             THEN scan(text, open_char, close_char, start_idx, i + 1, depth, ~in_string, FALSE)
           ELSE IF in_string
             THEN scan(text, open_char, close_char, start_idx, i + 1, depth, in_string, FALSE)
           ELSE IF char = open_char
             THEN scan(text, open_char, close_char, start_idx, i + 1, depth + 1, in_string, FALSE)
           ELSE IF char = close_char
             THEN IF depth - 1 = 0
                    THEN [found |-> TRUE, text |-> SubSeq(text, start_idx, i)]
                    ELSE scan(text, open_char, close_char, start_idx, i + 1, depth - 1,
                              in_string, FALSE)
           ELSE scan(text, open_char, close_char, start_idx, i + 1, depth, in_string, FALSE)

\* _extract_first_json_object(text, open_char, close_char)
extract_first_json_object(text, open_char, close_char) ==
  IF find(text, open_char) = 0 THEN NoObject
  ELSE scan(text, open_char, close_char, find(text, open_char), find(text, open_char),
            0, FALSE, FALSE)

\* the bracket pairs _process_json_response passes, each with a character
\* that is neither of its brackets
BracketPairs ==
  {[open_char |-> "{", close_char |-> "}", other |-> "a"],
   [open_char |-> "[", close_char |-> "]", other |-> "{"]}

\* the texts of up to MaxText characters over the brackets of the pair, the
\* double quote, the backslash and one other character
Texts(pair) ==
  UNION {[1..n -> {pair.open_char, pair.close_char, Quote, Backslash, pair.other}] :
           n \in 0..MaxText}

\* a caller about to call with a text and a bracket pair
InitExtract ==
  /\ auto_accept = TRUE
  /\ block_dangerous_commands = TRUE
  /\ ssh_connection = FALSE
  /\ window_size = MaxWindow
  /\ summary_char_limit = 5000
  /\ max_concurrent_fetches = 5
  /\ Constructed
  /\ \E pair \in BracketPairs : \E text \in Texts(pair) :
       call = [op |-> "extract_first_json_object", text |-> text,
               open_char |-> pair.open_char, close_char |-> pair.close_char]
  /\ returned = <<>>
  /\ attempt = 0
  /\ slept = <<>>
  /\ tasks = <<>>
  /\ request_history = <<>>

\* the call is made
ExtractFirstJsonObject ==
  /\ returned = <<>>
  /\ returned' = extract_first_json_object(call.text, call.open_char, call.close_char)
  /\ UNCHANGED <<runner, plan, call, attempt, slept, max_concurrent_fetches, tasks,
                 request_history>>

SpecExtract == InitExtract /\ [][ExtractFirstJsonObject]_vars

(***************************************************************************)
(* ActionPlanManager: add_step and remove_step                             *)
(***************************************************************************)
\* list.sort(key=lambda s: s.number): a stable sort by step number
RECURSIVE sort_by_number(_)
sort_by_number(steps) ==
  IF Len(steps) <= 1 THEN steps
  ELSE LET sorted == sort_by_number(SubSeq(steps, 1, Len(steps) - 1))
           last   == steps[Len(steps)]
           before == {i \in 1..Len(sorted) : sorted[i].number <= last.number}
           k      == IF before = {} THEN 0
                     ELSE CHOOSE i \in before : \A j \in before : j <= i
       IN  SubSeq(sorted, 1, k) \o <<last>> \o SubSeq(sorted, k + 1, Len(sorted))

\* add_step(description, command, position): position is absent (None) or
\* a number
add_step(p, description, position) ==
  LET number  == IF position.given THEN position.value ELSE Len(p) + 1
      shifted == IF position.given
                   THEN [i \in 1..Len(p) |->
                           IF p[i].number >= number
                             THEN [p[i] EXCEPT !.number = @ + 1] ELSE p[i]]
                   ELSE p
  IN  sort_by_number(Append(shifted, [number |-> number, description |-> description,
                                      status |-> "pending"]))

\* remove_step(step_number): the first step with that number is removed
\* and the steps with a greater number move down by one
remove_step(p, step_number) ==
  LET found == {i \in 1..Len(p) : p[i].number = step_number}
  IN  IF found = {} THEN p
      ELSE LET i    == CHOOSE k \in found : \A j \in found : k <= j
               rest == SubSeq(p, 1, i - 1) \o SubSeq(p, i + 1, Len(p))
           IN  [k \in 1..Len(rest) |->
                  IF rest[k].number > step_number
                    THEN [rest[k] EXCEPT !.number = @ - 1] ELSE rest[k]]

\* the positions a caller may pass to add_step
Positions ==
  {[given |-> FALSE, value |-> 0]}
    \cup {[given |-> TRUE, value |-> v] : v \in 1..(MaxPlanSteps + 1)}

\* add_step(description, position=...)
AddStep ==
  /\ Len(plan) <= MaxPlanSteps
  /\ \E position \in Positions :
       /\ call' = [op |-> "add_step", position |-> position, steps |-> plan]
       /\ plan' = add_step(plan, "a", position)
  /\ returned' = "step"
  /\ UNCHANGED <<runner, attempt, slept, max_concurrent_fetches, tasks, request_history>>

\* remove_step(step_number)
RemoveStep ==
  /\ \E step_number \in 1..(MaxPlanSteps + 2) :
       /\ call' = [op |-> "remove_step", step_number |-> step_number, steps |-> plan]
       /\ plan' = remove_step(plan, step_number)
       /\ returned' = IF \E i \in 1..Len(plan) : plan[i].number = step_number
                        THEN "true" ELSE "false"
  /\ UNCHANGED <<runner, attempt, slept, max_concurrent_fetches, tasks, request_history>>

NextPlanEdit ==
  \/ CreatePlan
  \/ AddStep
  \/ RemoveStep

SpecPlanEdit == InitUnit /\ [][NextPlanEdit]_vars

(***************************************************************************)
(* Claims                                                                  *)
(***************************************************************************)
\* the plan steps that are pending or in progress
Incomplete(p) == {i \in 1..Len(p) : p[i].status \in {"pending", "in_progress"}}

\* the loop goes on after an action item that does not stop it: with the
\* next item of the batch, with the next model request, or, the step budget
\* being used up, through the step-limit exit
LoopGoesOn ==
  \/ pc' = "dispatch" /\ action_item_idx' = action_item_idx + 1 /\ keep_running'
  \/ pc' = "request" /\ step_count' = step_count + 1 /\ keep_running'
  \/ pc' = "done" /\ step_count + 1 = max_steps /\ summary' = "max_step_limit"

\* C1: finish gate.  A finish action met while a plan step is pending or in
\* progress does not mark the run finished and does not leave the loop: one
\* corrective user turn naming the number of incomplete steps is appended
\* and the loop goes on.  A finish action is accepted, and the run marked
\* finished, only when no plan step is pending or in progress.
C1_FinishGate ==
  /\ [](task_finished_successfully => Incomplete(plan) = {})
  /\ [][(pc = "dispatch" /\ task_finished_successfully') => Incomplete(plan) = {}]_vars
  /\ [][(pc = "dispatch" /\ feedback' # <<>>
           /\ feedback'[1].msg = "finish_rejected_incomplete_steps") =>
          /\ Incomplete(plan) # {}
          /\ ~task_finished_successfully'
          /\ ~agent_should_stop_this_turn'
          /\ plan' = plan
          /\ context' = Append(context, Turn("user", "feedback"))
          /\ feedback' = <<Msg("finish_rejected_incomplete_steps",
                               Cardinality(Incomplete(plan)))>>
          /\ LoopGoesOn]_vars

\* a finish action was rejected for two incomplete steps as the last item
\* of the first step, and the second model request is about to be made
C1_Witness ==
  /\ pc = "request"
  /\ step_count = 1
  /\ feedback = <<Msg("finish_rejected_incomplete_steps", 2)>>
  /\ ~task_finished_successfully
  /\ Cardinality(Incomplete(plan)) = 2

\* C2: with command validation on, the executor (local or remote) is never
\* called for a bash action whose command contains a denylisted substring.
C2_DenylistedNeverExecuted ==
  (block_dangerous_commands /\ Executor \in effects) => ~ContainsDenylisted(command)

Synthetic(turn) == turn.content \in {"conversation_memory", "persistent_state"}

\* C4: context window bound.  With T >= 2 + window_size stored turns,
\* get_sliding_window_context returns exactly 2 + window_size stored turns
\* plus synthetic ones, at most window_size + 4 entries in all.
C4_WindowBound ==
  [][(GetSlidingWindowContext /\ Len(context) >= 2 + window_size) =>
       /\ Cardinality({i \in 1..Len(window_context') :
                         ~Synthetic(window_context'[i])}) = 2 + window_size
       /\ Len(window_context') <= window_size + 4]_vars

\* C5: summary anchoring.  Every result of get_sliding_window_context begins
\* with the first two stored turns, the system prompt and the goal, and the
\* store keeps them as its first two turns.
C5_SummaryAnchoring ==
  /\ Len(context) >= 2
  /\ context[1] = SystemPromptTurn
  /\ context[2] = GoalTurn
  /\ window_context # <<>> =>
       /\ Len(window_context) >= 2
       /\ window_context[1] = SystemPromptTurn
       /\ window_context[2] = GoalTurn

\* a window was made of a context longer than 2 + window_size, with the
\* state injected
C5_Witness ==
  /\ Len(context) = MaxTurns
  /\ summary_upto_index = MaxTurns - window_size
  /\ Len(window_context) = 3 + window_size
  /\ window_context[Len(window_context)] = Turn("system", "persistent_state")

\* correction requests stored since the latest main model request
CorrectionRequestsStored ==
  Cardinality({i \in (turn_start + 1)..Len(context) :
                 context[i] = Turn("user", "correction_request")})

\* C6: correction sub-protocol.  An unparseable reply is stored, then at
\* most 3 correction requests are made for that step: a request is made
\* only while no reply has parsed, a corrected reply that parses ends the
\* asking, and after 3 unsuccessful attempts the step is given up and the
\* loop goes on without a stop.
C6_CorrectionBound ==
  /\ [](pc = "correcting" =>
          /\ context[turn_start + 1] = Turn("assistant", "reply_raw")
          /\ CorrectionRequestsStored = correction_attempt
          /\ correction_attempt < 3)
  /\ [][ModelRequestInvalid =>
          (pc' = "correcting" /\ context' = Append(context, Turn("assistant", "reply_raw")))]_vars
  /\ []["correction_request" \in effects' =>
          (pc = "correcting" /\ correction_attempt < 3)]_vars
  /\ [][CorrectionParsed => pc' # "correcting"]_vars
  /\ [][CorrectionFailed =>
          (pc' = "correcting" /\ correction_attempt' = correction_attempt + 1)]_vars
  /\ [][CorrectionGiveUp =>
          /\ correction_attempt = 2
          /\ ~agent_should_stop_this_turn'
          /\ \/ pc' = "request" /\ step_count' = step_count + 1 /\ keep_running'
             \/ pc' = "done" /\ step_count + 1 = max_steps /\ summary' = "max_step_limit"]_vars

\* the first step was given up after the third correction request and the
\* second model request is about to be made
C6_Witness ==
  /\ pc = "request"
  /\ step_count = 1
  /\ keep_running
  /\ Len(feedback) = 5
  /\ feedback[1] = Msg("correction_request", 3)
  /\ feedback[3] = Msg("could_not_parse", 3)

\* the assistant turns stored since the latest main model request
AssistantTurnsOfStep ==
  SelectSeq(SubSeq(context, turn_start + 1, Len(context)),
            LAMBDA turn : turn.role = "assistant")

\* C7: after a correction request is answered by a reply that parses to an
\* action list, the only assistant turn stored for that step is the
\* corrected JSON.
C7_OnlyCorrectedReplyStored ==
  (/\ Len(feedback) = 2
   /\ feedback[1].msg = "correction_request"
   /\ feedback[2].msg = "reply_json")
    => AssistantTurnsOfStep = <<Turn("assistant", "reply_json")>>

\* C8: a main model request without a reply stops the run in the same step:
\* nothing is stored, dispatched or executed, the summary says that no
\* response was obtained, and no step follows the end of the run.
C8_NoReplyStops ==
  /\ [][ModelRequestNoReply =>
          /\ pc' = "done"
          /\ ~keep_running'
          /\ summary' = "ai_no_response"
          /\ context' = context
          /\ plan' = plan
          /\ effects' = {"model_request"}
          /\ requests' = requests + 1
          /\ step_count' = step_count]_vars
  /\ [][pc # "done"]_vars

\* the second main model request of a goal got no reply
C8_Witness ==
  /\ pc = "done"
  /\ summary = "ai_no_response"
  /\ requests = 2
  /\ effects = {"model_request"}

\* the answers given to an invalid action payload: an item that is not a
\* dictionary, no tool, an unknown tool, and a known tool whose required
\* field is missing or malformed
InvalidPayloadAnswers ==
  {"item_not_a_dictionary", "missing_tool_field",
   "invalid_tool_skipping", "invalid_tool_stopping_this_turn",
   "invalid_timeout", "no_command", "failed_security_validation",
   "ask_user_blocked_autonomous", "ask_user_no_question",
   "missing_required_field", "tool_not_available",
   "update_plan_step_missing_field", "invalid_status"}

\* C9: an invalid action payload has no side effect (no executor call, no
\* operation, no confirmation prompt, no plan change) and appends exactly
\* one feedback user turn.
C9_InvalidPayload ==
  [][(pc = "dispatch" /\ feedback' # <<>>
        /\ feedback'[1].msg \in InvalidPayloadAnswers) =>
       /\ effects' = {}
       /\ command' = <<>>
       /\ plan' = plan
       /\ context' = Append(context, Turn("user", "feedback"))
       /\ Len(feedback') = 1]_vars

\* a tool action without a required field was answered as the first item of
\* a batch, a plan step being pending
C9_Witness ==
  /\ pc = "dispatch"
  /\ action_item_idx = 1
  /\ feedback = <<Msg("missing_required_field", 0)>>
  /\ effects = {}
  /\ Incomplete(plan) # {}
  /\ context[Len(context)] = Turn("user", "feedback")

\* C10: an action with an unknown tool, a missing field or a rejected
\* command never ends the run: the loop goes on.
C10_InvalidPayloadNotFatal ==
  [][(pc = "dispatch" /\ feedback' # <<>>
        /\ feedback'[1].msg \in {"invalid_tool_skipping", "invalid_tool_stopping_this_turn",
                                  "missing_tool_field", "missing_required_field",
                                  "invalid_timeout", "no_command",
                                  "failed_security_validation"}) => LoopGoesOn]_vars

\* C11: the run never terminates silently.  Whenever run() has stopped, the
\* summary is a non-empty text.
C11_NeverSilent ==
  pc = "done" => summary # ""

\* a step of the batch loop in which the executor was called
ExecutorCalled == pc = "dispatch" /\ Executor \in effects'

\* C12: execution failures are data.  The executor is only called as the
\* handling of one bash action item, for the command of that item, and the
\* step makes that one call and no other operation; only a remote
\* execution can stop the run, as an SSH connection failure; a
\* non-zero exit code that is not an SSH connection failure appends one
\* feedback turn naming the exit code, books the failure in the plan and
\* lets the loop go on with the next item or the next step.
C12_FailuresAreData ==
  /\ [][(Executor \in effects') => (pc = "dispatch")]_vars
  /\ [][ExecutorCalled =>
          /\ command' # <<>>
          /\ effects' \subseteq {Executor, "confirm_prompt"}
          /\ agent_should_stop_this_turn' =>
               (ssh_connection /\ summary' = "ssh_connection_failed")
          /\ (feedback' # <<>> /\ feedback'[1].msg = "command_failed") =>
               /\ feedback' = <<Msg("command_failed", feedback'[1].n)>>
               /\ feedback'[1].n \in ExitCodes \ {0}
               /\ context' = Append(context, Turn("user", "feedback"))
               /\ ~agent_should_stop_this_turn'
               /\ LoopGoesOn]_vars

\* a local command failed with exit code 1 as the first item of a batch,
\* and the second item is about to be handled
C12_Witness ==
  /\ pc = "dispatch"
  /\ action_item_idx = 1
  /\ ~ssh_connection
  /\ effects = {"execute_local"}
  /\ feedback = <<Msg("command_failed", 1)>>
  /\ command # <<>>

\* C13: exit code 255.  An executed bash action stops the run as an SSH
\* connection failure if and only if the execution is remote, the exit code
\* is 255 and the output holds a connection-failure phrase; in every other
\* case one feedback turn is appended and the loop goes on.
C13_ExitCode255 ==
  [][ExecutorCalled =>
       \A code \in ExitCodes, out \in Outputs :
         BashResult(command', code, out) =>
           IF ssh_connection /\ code = 255 /\ out = "connection_error"
             THEN /\ pc' = "done"
                  /\ agent_should_stop_this_turn'
                  /\ ~keep_running'
                  /\ summary' = "ssh_connection_failed"
                  /\ context' = context
             ELSE /\ ~agent_should_stop_this_turn'
                  /\ context' = Append(context, Turn("user", "feedback"))
                  /\ feedback' = <<Msg(IF code = 0 THEN "command_succeeded"
                                                   ELSE "command_failed", code)>>
                  /\ LoopGoesOn]_vars

\* a remote command returned 255 without a connection-failure phrase and
\* the next model request is about to be made
C13_Witness ==
  /\ ssh_connection
  /\ pc = "request"
  /\ keep_running
  /\ effects = {"execute_remote_pexpect"}
  /\ feedback = <<Msg("command_failed", 255)>>

\* the least element of a non-empty set of step positions
First(S) == CHOOSE i \in S : \A j \in S : i <= j

\* the plan p once its matching step is completed: the step in progress if
\* there is one, otherwise the first pending step, otherwise no step
MatchingStepCompleted(p) ==
  LET in_progress == {i \in 1..Len(p) : p[i].status = "in_progress"}
      pending     == {i \in 1..Len(p) : p[i].status = "pending"}
  IN  IF in_progress # {} THEN [p EXCEPT ![First(in_progress)].status = "completed"]
      ELSE IF pending # {} THEN [p EXCEPT ![First(pending)].status = "completed"]
      ELSE p

\* C17: a bash action executed with exit code 0 appends one success
\* feedback user turn and completes the matching plan step: the step in
\* progress if any, otherwise the first pending step.
C17_SuccessAdvancesPlan ==
  [][(pc = "dispatch" /\ feedback' # <<>>
        /\ feedback'[1].msg = "command_succeeded") =>
       /\ Executor \in effects'
       /\ feedback' = <<Msg("command_succeeded", 0)>>
       /\ context' = Append(context, Turn("user", "feedback"))
       /\ plan' = MatchingStepCompleted(plan)]_vars

\* a command succeeded while the first of two steps was the matching one
C17_Witness ==
  /\ feedback = <<Msg("command_succeeded", 0)>>
  /\ Executor \in effects
  /\ Len(plan) = 2
  /\ plan[1].status = "completed"
  /\ plan[2].status = "pending"

\* C14: human refusal is recoverable.  A refused confirmation prompt (only
\* met with auto_accept off) has no side effect but the prompt itself: no
\* executor call, no operation, no plan change; one user turn carrying the
\* justification is appended, no stop is requested and the loop goes on
\* with the remaining action items.
C14_RefusalRecoverable ==
  [][(pc = "dispatch" /\ feedback' # <<>> /\ feedback'[1].msg = "user_refused") =>
       /\ ~auto_accept
       /\ effects' = {"confirm_prompt"}
       /\ command' = <<>>
       /\ plan' = plan
       /\ context' = Append(context, Turn("user", "feedback"))
       /\ Len(feedback') = 1
       /\ ~agent_should_stop_this_turn'
       /\ LoopGoesOn]_vars

\* the user refused the first item of a batch and the second item is about
\* to be handled, a plan step being pending
C14_Witness ==
  /\ ~auto_accept
  /\ pc = "dispatch"
  /\ action_item_idx = 1
  /\ feedback = <<Msg("user_refused", 0)>>
  /\ effects = {"confirm_prompt"}
  /\ Incomplete(plan) # {}

\* the executor calls and the operations of the other tools
Executions == {"execute_local", "execute_remote_pexpect", "operation"}

C16_AskUserAutonomous ==
  /\ [](auto_accept => "ask_prompt" \notin effects)
  /\ [][(pc = "dispatch" /\ feedback' # <<>>
           /\ feedback'[1].msg = "ask_user_blocked_autonomous") =>
          /\ auto_accept
          /\ effects' = {}
          /\ plan' = plan
          /\ context' = Append(context, Turn("user", "feedback"))
          /\ Len(feedback') = 1
          /\ ~agent_should_stop_this_turn'
          /\ LoopGoesOn]_vars

\* an ask_user action was rejected in auto-accept mode as the first item of
\* a batch, and the second item is about to be handled
C16_Witness ==
  /\ auto_accept
  /\ pc = "dispatch"
  /\ action_item_idx = 1
  /\ feedback = <<Msg("ask_user_blocked_autonomous", 0)>>
  /\ effects = {}

\* C18: the agent never runs without a plan.  When the first model request
\* of a goal is about to be made, the plan has at least one step.
C18_NeverWithoutPlan ==
  (pc = "request" /\ requests = 0) => Len(plan) >= 1

\* sequence a is a prefix of sequence b
IsPrefix(a, b) == Len(a) <= Len(b) /\ SubSeq(b, 1, Len(a)) = a

\* C19: the context is append-only.  Every step leaves the context it found
\* as a prefix of the context it makes.
C19_AppendOnly ==
  [][IsPrefix(context, context')]_vars

\* C20: rolling summary lifecycle.  Once a window is requested while the
\* stored turns exceed 2 + window_size, the rolling summary is not null.
C20_RollingSummaryLifecycle ==
  [][(GetSlidingWindowContext /\ Len(context) > 2 + window_size) =>
       rolling_summary' # "None"]_vars

(***************************************************************************)
(* The summary cap and the summarizer's fallback                           *)
(***************************************************************************)
\* C21: summary hard cap.  After every rolling-summary update the stored
\* summary has at most summary_char_limit characters; when the text the
\* summarizer produced is longer, exactly its trailing summary_char_limit
\* characters are kept and truncation_count grows by exactly 1.
C21_SummaryHardCap ==
  [][(GetSlidingWindowContext /\ UpdateDue) =>
       LET text  == summarize(summarizer')
           limit == summary_char_limit
       IN  /\ Len(text) > limit => truncation_count' = truncation_count + 1
           /\ Len(text) <= limit => truncation_count' = truncation_count
           /\ rolling_summary' # "None"
           /\ Len(rolling_summary') <= limit
           /\ Len(text) > limit =>
                rolling_summary' = SubSeq(text, Len(text) - limit + 1, Len(text))]_vars

\* C22: summarization never raises.  get_sliding_window_context returns a
\* window for every context, whatever the summarizer model does; when its
\* call fails, returns nothing or raises, the heuristic fallback produces
\* the summary that is stored.
C22_SummarizationNeverRaises ==
  [][GetSlidingWindowContext =>
       /\ Len(window_context') >= 2
       /\ (UpdateDue /\ summarizer'.kind \in {"nothing", "raises"}) =>
            /\ rolling_summary' # "None"
            /\ rolling_summary' = heuristic_summary]_vars

(***************************************************************************)
(* SecurityValidator                                                       *)
(***************************************************************************)
\* the command holds an entry of the denylist in some letter case
ContainsDenylistedAnyCase(cmd) ==
  \E dangerous \in dangerous_commands : Contains(Lower(cmd), Lower(dangerous))

\* C23: denylist soundness.  validate_command returns ok = false for every
\* command that contains an entry of the default denylist as a substring in
\* any letter case, and ok = true for the safe command `ls -la /tmp`.
C23_DenylistSoundness ==
  (call # <<>> /\ call.op = "validate_command") =>
    /\ ContainsDenylistedAnyCase(call.command) => ~returned.ok
    /\ call.command = CmdLs => returned.ok

(***************************************************************************)
(* ActionPlanManager                                                       *)
(***************************************************************************)
\* C24: create_plan replaces the plan.  After create_plan(goal, steps) with
\* a list of dictionaries the plan holds exactly one step per entry, in the
\* order of the entries, numbered 1..n, every step pending; no step of the
\* previous plan remains.
C24_CreatePlanReplaces ==
  (call # <<>> /\ call.op = "create_plan" /\ returned = "steps") =>
    /\ Len(plan) = Len(call.steps_data)
    /\ \A i \in 1..Len(plan) :
         /\ plan[i].number = i
         /\ plan[i].status = "pending"
         /\ plan[i].description = IF call.steps_data[i].description = "absent" THEN ""
                                  ELSE call.steps_data[i].description

\* a plan of two steps, one completed and one in progress, was replaced by a
\* plan of two other steps
C24_Witness ==
  /\ call # <<>>
  /\ call.op = "create_plan"
  /\ returned = "steps"
  /\ Len(call.steps) = 2
  /\ call.steps[1].status = "completed"
  /\ call.steps[2].status = "in_progress"
  /\ call.steps[1].description = "a"
  /\ Len(plan) = 2
  /\ plan[1].description = "b"
  /\ plan[2].description = ""

\* C25: mark_step_status(number, status, result) returns false and leaves
\* every step unchanged when no step has that number; otherwise it returns
\* true, sets the status of the step with that number and changes no other
\* step's status.
C25_MarkStepStatusFrame ==
  (call # <<>> /\ call.op = "mark_step_status") =>
    LET known == \E i \in 1..Len(call.steps) : call.steps[i].number = call.step_number
    IN  /\ Len(plan) = Len(call.steps)
        /\ returned = (IF known THEN "true" ELSE "false")
        /\ ~known => plan = call.steps
        /\ \A i \in 1..Len(plan) :
             /\ plan[i].number = call.steps[i].number
             /\ plan[i].description = call.steps[i].description
             /\ plan[i].status = IF plan[i].number = call.step_number THEN call.status
                                 ELSE call.steps[i].status

\* the first of two pending steps was marked completed, and a call with an
\* unknown number is covered by the other witness states of the same shape
C25_Witness ==
  /\ call # <<>>
  /\ call.op = "mark_step_status"
  /\ Len(call.steps) = 2
  /\ call.steps[1].status = "pending"
  /\ call.steps[2].status = "in_progress"
  /\ call.step_number = 1
  /\ call.status = "completed"
  /\ returned = "true"
  /\ plan[1].status = "completed"
  /\ plan[2].status = "in_progress"

\* C26: in every reachable state of a run at most one plan step has status
\* in_progress, whatever actions the model sends and whatever the tools return.
C26_AtMostOneInProgress ==
  CountStatus(plan, "in_progress") <= 1

(***************************************************************************)
(* JsonValidator                                                           *)
(***************************************************************************)
\* the response is the text of a JSON object or array
ValidJsonText(ai_response) ==
  /\ ai_response.type = "str"
  /\ json_loads(ai_response.text).ok
  /\ json_loads(ai_response.text).val.t \in {"arr", "obj"}

\* C27: parser round trip.  For every valid JSON object or array text s,
\* parsing s succeeds, the data returned equals json.loads(s), the canonical
\* string returned parses back to the same data, and parsing the canonical
\* string gives the same canonical string again.
C27_ParserRoundTrip ==
  (call # <<>> /\ call.op = "validate_response" /\ ValidJsonText(call.ai_response)) =>
    LET canonical == returned.ai_reply_json_string
        again == parse_with_enhanced_validator([type |-> "str", text |-> canonical],
                                               call.later, JsonNull)
    IN  /\ returned.success
        /\ returned.data = json_loads(call.ai_response.text).val
        /\ json_loads(canonical).ok
        /\ json_loads(canonical).val = returned.data
        /\ again.success
        /\ again.ai_reply_json_string = canonical

\* an object text with blanks and a repeated key was parsed: one member is
\* left, holding the later value, and the canonical string is another text
C27_Witness ==
  /\ call # <<>>
  /\ call.op = "validate_response"
  /\ ValidJsonText(call.ai_response)
  /\ Len(call.ai_response.text) >= 14
  /\ returned.success
  /\ returned.data.t = "obj"
  /\ Len(returned.data.v) = 1
  /\ returned.data.v[1].val.t = "arr"
  /\ returned.ai_reply_json_string # call.ai_response.text

\* C28: the parser never raises.  For every input, text or not,
\* validate_response returns a triple; when every strategy fails the triple
\* is success = false, data = null and a non-empty error message that holds
\* a sample of the response.
C28_ParserNeverRaises ==
  (call # <<>> /\ call.op = "validate_response") =>
    /\ ~returned.raised
    /\ returned.success \in BOOLEAN
    /\ ~returned.success =>
         /\ returned.data = JsonNull
         /\ returned.error.msg # ""
         /\ (call.ai_response.type = "str" /\ call.ai_response.text # <<>>) =>
              LET text == call.ai_response.text
                  n == IF Len(text) < sample_length THEN Len(text) ELSE sample_length
              IN  /\ Len(returned.error.sample) >= n
                  /\ SubSeq(returned.error.sample, 1, n) = SubSeq(text, 1, n)

\* prose was passed, the later strategies raised, and the failure triple
\* carries the prose as its sample; the inputs that are not strings are
\* answered in the same specification
C28_Witness ==
  /\ call # <<>>
  /\ call.op = "validate_response"
  /\ call.ai_response.text = <<"o", "k">>
  /\ call.later = "raises"
  /\ ~returned.raised
  /\ ~returned.success
  /\ returned.error.sample = <<"o", "k">>

(***************************************************************************)
(* AICommunicationHandler                                                  *)
(***************************************************************************)
\* C29: transport retry.  send_request makes at most 5 attempts, returns the
\* result of the first attempt that succeeds without attempting again, and
\* returns null only after all 5 attempts have failed; it waits
\* base_delay * attempt between consecutive attempts and does not wait
\* after the last one.
C29_TransportRetry ==
  (call # <<>> /\ call.op = "send_request") =>
    LET outcomes == call.outcomes
        failed == {i \in 1..Len(outcomes) : outcomes[i] # "response"}
    IN  /\ attempt \in 1..max_attempts
        /\ Len(outcomes) <= max_attempts
        /\ Len(outcomes) = IF returned.done THEN attempt ELSE attempt - 1
        /\ \A i \in 1..(Len(outcomes) - 1) : i \in failed
        /\ returned.done <=>
             /\ Len(outcomes) >= 1
             /\ Len(outcomes) \notin failed \/ Len(outcomes) = max_attempts
        /\ (returned.done /\ returned.value = "None") <=> failed = 1..max_attempts
        /\ (returned.done /\ returned.value # "None") =>
             /\ outcomes[Len(outcomes)] = "response"
             /\ returned.value = outcomes[Len(outcomes)]
        /\ Len(slept) = Cardinality(failed \ {max_attempts})
        /\ \A i \in 1..Len(slept) : slept[i] = base_delay * i

\* all five attempts failed: null is returned after waits of 10, 20, 30 and
\* 40 seconds, none after the fifth failure
C29_Witness ==
  /\ call # <<>>
  /\ call.op = "send_request"
  /\ returned.done
  /\ returned.value = "None"
  /\ Len(call.outcomes) = max_attempts
  /\ attempt = max_attempts
  /\ slept = <<base_delay, 2 * base_delay, 3 * base_delay, 4 * base_delay>>

(***************************************************************************)
(* WebSearchAgent                                                          *)
(***************************************************************************)
\* C30: web-search fetch concurrency.  During a batch content extraction
\* the number of page fetches in flight never exceeds
\* max_concurrent_fetches; the batch returns only after every fetch has
\* completed or failed, with one result per URL in the order of the URLs,
\* the empty string for a failed fetch.
C30_FetchConcurrency ==
  (call # <<>> /\ call.op = "extract_content_batch") =>
    /\ Cardinality(InFlight) <= max_concurrent_fetches
    /\ call.peak <= max_concurrent_fetches
    /\ Len(tasks) = call.urls
    /\ returned.done =>
         /\ \A i \in 1..Len(tasks) : tasks[i] \in Finished
         /\ Len(returned.results) = call.urls
         /\ \A i \in 1..call.urls :
              returned.results[i] = IF tasks[i] = "text" THEN i ELSE 0

\* a batch of three URLs under a limit of two has returned: two fetches
\* were in flight at once, the first gave text, the second raised, the
\* third failed
C30_Witness ==
  /\ call # <<>>
  /\ call.op = "extract_content_batch"
  /\ call.aiohttp
  /\ max_concurrent_fetches = 2
  /\ call.peak = 2
  /\ returned.done
  /\ tasks = <<"text", "exception", "empty">>
  /\ returned.results = <<1, 0, 0>>

(***************************************************************************)
(* Parse failures, sequencing, plan progress                               *)
(***************************************************************************)
\* the turns stored since the latest main model request
TurnsOfStep == SubSeq(context, turn_start + 1, Len(context))

\* the correction loop has just given up
GaveUp ==
  \E i \in 1..Len(feedback) : feedback[i] = Msg("could_not_parse", max_correction_attempts)

\* C31: when a reply still cannot be parsed after the correction loop, the
\* failure is recorded in the context once, as one assistant turn holding
\* the unparseable reply and one diagnostic user turn; nothing is
\* dispatched, and the step loop goes on with a new model request.
C31_ParseFailureRecordedOnce ==
  GaveUp =>
    /\ Len(AssistantTurnsOfStep) = 1
    /\ Len(SelectSeq(TurnsOfStep, LAMBDA turn : turn = Turn("user", "feedback"))) = 1
    /\ effects = {"correction_request"}
    /\ actions_len = 0
    /\ pc = "request" \/ (pc = "done" /\ summary = "max_step_limit")

MatchingStepSet(p, status) ==
  LET in_progress == {i \in 1..Len(p) : p[i].status = "in_progress"}
      pending     == {i \in 1..Len(p) : p[i].status = "pending"}
  IN  IF in_progress # {} THEN [p EXCEPT ![First(in_progress)].status = status]
      ELSE IF pending # {} THEN [p EXCEPT ![First(pending)].status = status]
      ELSE p

\* C33: plan progress frame rule.  Every executed tool action (a bash
\* command, a file operation, a web search) changes the status of at most
\* one plan step, the first step in progress or else the first pending
\* step, to completed after a success and to failed after a failure, and
\* leaves every other step as it was; an action that is rejected, refused
\* or skipped before execution changes no step.
C33_PlanProgressFrame ==
  [][pc = "dispatch" =>
       /\ Len(plan') = Len(plan)
       /\ "mark_step_status" \notin effects' =>
            Cardinality({i \in 1..Len(plan) : plan'[i] # plan[i]}) <= 1
       /\ (effects' \cap Executions # {} /\ feedback' # <<>>) =>
            /\ feedback'[1].msg \in {"command_succeeded", "operation_succeeded",
                                     "command_failed", "operation_failed"}
            /\ plan' = MatchingStepSet(plan,
                         IF feedback'[1].msg \in {"command_succeeded", "operation_succeeded"}
                           THEN "completed" ELSE "failed")
       /\ (effects' \cap (Executions \cup {"mark_step_status"}) = {}) =>
            plan' = plan]_vars

\* a file operation failed while the second of two steps was in progress
\* and the first one pending: the second step is the one marked failed
C33_Witness ==
  /\ feedback = <<Msg("operation_failed", 0)>>
  /\ "operation" \in effects
  /\ Len(plan) = 2
  /\ plan[1].status = "pending"
  /\ plan[2].status = "failed"

(***************************************************************************)
(* update_plan_step                                                        *)
(***************************************************************************)
\* C34: an update_plan_step action with an existing step number and any
\* status of the PlanStep status enum sets that step to the status and is
\* answered by a confirmation; an action with a missing step number or
\* status, a status outside the enum or an unknown step number leaves the
\* whole plan unchanged and is answered by exactly one feedback turn, which
\* for an unknown number says that the step was not found.
C34_UpdatePlanStep ==
  (call # <<>> /\ call.op = "update_plan_step") =>
    LET item  == call.action_item
        valid == item.has_step_number /\ item.status \in StepStatus
        known == \E i \in 1..Len(call.steps) : call.steps[i].number = item.step_number
    IN  IF valid /\ known
          THEN /\ returned = "plan_step_marked"
               /\ plan = [i \in 1..Len(call.steps) |->
                            IF call.steps[i].number = item.step_number
                              THEN [call.steps[i] EXCEPT !.status = item.status]
                              ELSE call.steps[i]]
          ELSE /\ plan = call.steps
               /\ returned \in {"update_plan_step_missing_field", "invalid_status",
                                "plan_step_not_found"}
               /\ valid => returned = "plan_step_not_found"

(***************************************************************************)
(* The window and the request history                                      *)
(***************************************************************************)
\* C35: no turn is lost from the window.  Whenever the context holds more
\* than 2 + window_size turns, get_sliding_window_context returns the first
\* two turns, then exactly one synthetic summary turn with role system that
\* covers the turns between index 2 and the recent window, then the last
\* window_size turns verbatim, then the optional state turn.
C35_NoTurnLost ==
  [][(GetSlidingWindowContext /\ Len(context) > 2 + window_size) =>
       \E tail \in {<<>>, <<Turn("system", "persistent_state")>>} :
         window_context' =
           SubSeq(context, 1, 2)
             \o <<Turn("system", "conversation_memory")>>
             \o SubSeq(context, Len(context) - window_size + 1, Len(context))
             \o tail]_vars

\* C36: the request history is a bounded buffer.  After
\* cleanup_request_history(max_entries), for every max_entries >= 0, the
\* history holds at most max_entries records, the most recently recorded
\* ones in their order; after the record and cleanup of a step of run() it
\* holds at most 1000 records.
C36_BoundedHistory ==
  /\ (call # <<>> /\ call.op = "cleanup_request_history") =>
       LET before == call.history
           kept   == IF Len(before) < call.max_entries THEN Len(before)
                     ELSE call.max_entries
       IN  /\ Len(request_history) <= call.max_entries
           /\ request_history = SubSeq(before, Len(before) - kept + 1, Len(before))
  /\ (call # <<>> /\ call.op = "run_records_reply") =>
       Len(request_history) <= 1000

(***************************************************************************)
(* SecurityValidator: chains and interactive programs                      *)
(***************************************************************************)
\* the command holds one of the injection metacharacters ; ` $( ${
HoldsInjection(cmd) ==
  \E pattern \in {<<";">>, <<Backquote>>, <<"$", "(">>, <<"$", "{">>} :
    Contains(cmd, pattern)

\* the command uses the operator and splitting on it leaves a blank segment
EmptySegment(cmd, operator) ==
  /\ Contains(cmd, operator)
  /\ \E k \in 1..Len(Split(cmd, operator)) :
       \A i \in 1..Len(Split(cmd, operator)[k]) :
         Split(cmd, operator)[k][i] \in Whitespace

\* C37: the chaining rule of the validator.  Every command that holds ; a
\* backquote, $( or ${ anywhere is rejected; a command using && or || is
\* rejected when splitting on the operator yields an empty segment; a chain
\* of two safe non-interactive commands such as a && b or a || b, and a
\* command using pipes and redirections, is accepted.
C37_ChainingRule ==
  (call # <<>> /\ call.op = "validate_command") =>
    /\ HoldsInjection(call.command) => ~returned.ok
    /\ (EmptySegment(call.command, <<"&", "&">>)
          \/ EmptySegment(call.command, <<"|", "|">>)) => ~returned.ok
    /\ call.command \in SafeChains => returned.ok

\* a chain with a trailing operator and a blank after it was rejected
C37_Witness ==
  /\ call # <<>>
  /\ call.op = "validate_command"
  /\ call.command = <<"a", " ", "&", "&", " ">>
  /\ ~returned.ok
  /\ returned.reason = "bad_and_chain"

\* the known interactive programs
InteractivePrograms ==
  { <<"v","i">>, <<"v","i","m">>, <<"n","a","n","o">>, <<"e","m","a","c","s">>,
    <<"l","e","s","s">>, <<"m","o","r","e">>, <<"t","o","p">>, <<"h","t","o","p">>,
    <<"m","c">>, <<"p","a","s","s","w","d">>, <<"s","u">> }

\* C38: the interactive-command rule is exact.  A non-empty command that
\* holds no denylisted substring, no injection metacharacter and no empty
\* chain segment is rejected if and only if its first whitespace-separated
\* token is one of the known interactive programs.
C38_InteractiveExact ==
  (/\ call # <<>>
   /\ call.op = "validate_command"
   /\ call.command # <<>>
   /\ ~ContainsDenylistedAnyCase(call.command)
   /\ ~HoldsInjection(call.command)
   /\ ~EmptySegment(call.command, <<"&", "&">>)
   /\ ~EmptySegment(call.command, <<"|", "|">>))
    => (~returned.ok <=> FirstToken(call.command) \in InteractivePrograms)

(***************************************************************************)
(* Balanced-bracket extraction                                             *)
(***************************************************************************)
\* The marks of the characters of text from position i on, read as the
\* claim words it: a double quote that is not escaped toggles the in-string
\* flag, the character after a backslash inside a string is skipped, and a
\* character is "counted" when it stands outside every string literal.
RECURSIVE Marks(_, _, _)
Marks(text, i, in_string) ==
  IF i > Len(text) THEN <<>>
  ELSE IF in_string /\ text[i] = Backslash
    THEN <<"skipped">> \o (IF i + 1 > Len(text) THEN <<>> ELSE <<"skipped">>)
           \o Marks(text, i + 2, in_string)
  ELSE IF text[i] = Quote
    THEN <<"quote">> \o Marks(text, i + 1, ~in_string)
  ELSE <<IF in_string THEN "inside" ELSE "counted">> \o Marks(text, i + 1, in_string)

\* the depth after the position k of the scan that starts at start: open
\* brackets less close brackets among the counted characters
DepthAfter(text, open_char, close_char, start, k) ==
  LET marks == Marks(text, start, FALSE)
      counted(c) == Cardinality({j \in start..k :
                                  marks[j - start + 1] = "counted" /\ text[j] = c})
  IN  counted(open_char) - counted(close_char)

\* C39: _extract_first_json_object(text, open, close) returns the substring
\* from the first open bracket to the first position where the depth
\* outside string literals returns to 0, brackets inside string literals
\* not being counted, and null when there is no open bracket or the depth
\* never returns to 0.
C39_BalancedExtraction ==
  (call # <<>> /\ call.op = "extract_first_json_object" /\ returned # <<>>) =>
    LET text  == call.text
        opens == {i \in 1..Len(text) : text[i] = call.open_char}
        start == CHOOSE i \in opens : \A j \in opens : i <= j
        zeros == {k \in start..Len(text) :
                    DepthAfter(text, call.open_char, call.close_char, start, k) = 0}
    IN  IF opens = {} \/ zeros = {}
          THEN returned = NoObject
          ELSE /\ returned.found
               /\ returned.text = SubSeq(text, start, CHOOSE k \in zeros : \A j \in zeros : k <= j)

\* a close bracket inside a string literal that also holds an escaped quote
\* was not counted
C39_Witness ==
  /\ call # <<>>
  /\ call.op = "extract_first_json_object"
  /\ call.text = <<"{", Quote, Backslash, Quote, "}", Quote>>
  /\ returned = NoObject

(***************************************************************************)
(* Step numbers                                                            *)
(***************************************************************************)
\* C40: step numbers are unique identifiers.  After any sequence of
\* create_plan, add_step (with or without a position) and remove_step no
\* two steps of the plan have the same number.
C40_UniqueStepNumbers ==
  \A i, j \in 1..Len(plan) : i # j => plan[i].number # plan[j].number
====
